---- MODULE Spec2Model ----
(***************************************************************************)
(* State-machine model of the YouTube live-chat aggregator.                *)
(*                                                                         *)
(* Two builds of the aggregation layer exist side by side in the source:   *)
(*   "incremental"  the TypeScript getLiveChat (hasMore / lastTimestamp),  *)
(*                  whose token extractor drives a headless browser;       *)
(*   "snapshot"     the JavaScript getLiveChat (totalMessages/timestamp),  *)
(*                  whose token extractor fetches the page statically.     *)
(* The variable `variant` says which build a behaviour is about.           *)
(*                                                                         *)
(* Times are abstract ticks.  The three cache thresholds keep their order  *)
(* (10 s < 5 min < 15 min) but are scaled to 1 < 2 < 3 ticks, and the      *)
(* 2000-message cap of the message cache is scaled to 2.                   *)
(***************************************************************************)
EXTENDS Integers, Sequences, FiniteSets, TLC

VARIABLES
    variant,        \* which build / which extractor the behaviour runs
    now,            \* Date.now(), in ticks
    tokenCache,     \* tokenCache of the extractor getLiveChat uses: url -> tokens
    messageCache,   \* messageCache of getLiveChat: videoId -> entry
    directTokenCache,   \* tokenCache of utils/directTokenExtractor.ts, which
                        \* getVideoMetadata of the incremental build uses
    channelNameCache,   \* channelNameCache of api/videoMetadata.ts: videoId -> name
    calls,          \* the extractYouTubeTokens calls: id -> position and locals
    browserInstance,            \* scraping/puppeteer.ts: the shared browser, 0 for null
    browserCreationInProgress,  \* scraping/puppeteer.ts: the creation lock
    browserCreationPromise,     \* scraping/puppeteer.ts: the creation in flight, 0 for null
    activePages,    \* scraping/puppeteer.ts: url -> tab
    browsers,       \* the browser processes: id -> "none", "launched", "installed", "gone"
    creations,      \* the creation closures of getBrowser: id -> position
    tabs,           \* the tabs: id -> state and browser
    lastFetch,      \* url -> the time of the last page fetch (GET or navigation)
    last            \* the last aggregation call: its request, the upstream's
                    \* answers to it and the response it returned

chatVars == <<tokenCache, messageCache>>

metaVars == <<directTokenCache, channelNameCache>>

extractVars ==
    <<calls, browserInstance, browserCreationInProgress, browserCreationPromise,
      activePages, browsers, creations, tabs, lastFetch>>

vars ==
    <<variant, now, tokenCache, messageCache, directTokenCache, channelNameCache, last,
      calls, browserInstance, browserCreationInProgress, browserCreationPromise,
      activePages, browsers, creations, tabs, lastFetch>>

(***************************************************************************)
(* Bounds of the model.                                                    *)
(***************************************************************************)
MaxTime == 3        \* the clock stops here

(***************************************************************************)
(* Program constants (scaled, see the header).                             *)
(***************************************************************************)
TOKEN_CACHE_EXPIRATION == 3     \* 15 * 60 * 1000 ms
CACHE_EXPIRATION == 2           \* 5 * 60 * 1000 ms (message cache)
REFRESH_AGE == 1                \* 10000 ms
MAX_CACHED_MESSAGES == 2        \* 2000

(***************************************************************************)
(* URLs.  A URL is the record of what the patterns of the parsers look at: *)
(* its shape, the video it names and the length of the run of id           *)
(* characters that follows the shape's prefix.                             *)
(***************************************************************************)
Url(shape, vid, len) == [shape |-> shape, vid |-> vid, len |-> len]

UrlA == Url("watch", "A", 11)          \* https://www.youtube.com/watch?v=<11>
UrlB == Url("youtu.be", "B", 11)       \* https://youtu.be/<11>
UrlLong == Url("watch", "A", 12)       \* watch?v=<12 id characters>
UrlBad == Url("other", "", 0)          \* not a YouTube video URL

\* extractVideoId of liveChat.ts and directTokenExtractor.{js,ts}: group 7 of
\* the pattern is the whole run after the prefix, accepted only at length 11.
extractVideoId(url) ==
    IF url.shape \in {"watch", "youtu.be", "embed"} /\ url.len = 11
    THEN url.vid ELSE ""

\* isValidYouTubeUrl of scraping/puppeteer.ts: two anchored prefix patterns,
\* each followed by at least 11 id characters.
isValidYouTubeUrlPup(url) ==
    url.shape \in {"watch", "youtu.be"} /\ url.len >= 11

\* isValidYouTubeUrl of directTokenExtractor.{js,ts}: a substring test and a
\* video id.
isValidYouTubeUrlDirect(url) ==
    url.shape \in {"watch", "youtu.be", "live"} /\ extractVideoId(url) # ""

(***************************************************************************)
(* Messages.  A raw item is what the upstream sends; its kind is "text"    *)
(* (a well-formed text message), "other" (an action that is no chat item)  *)
(* or "bad" (an item one of whose fields has the wrong type).              *)
(***************************************************************************)
RawItem(kind, id, ts) == [kind |-> kind, id |-> id, ts |-> ts]

Msg(id, ts, src) == [id |-> id, ts |-> ts, src |-> src]

RECURSIVE Flat(_)
Flat(ss) == IF ss = <<>> THEN <<>> ELSE Head(ss) \o Flat(Tail(ss))

\* Array.prototype.slice(-n)
SliceLast(s, n) ==
    IF n <= 0 THEN s    \* slice(-0) is slice(0): the whole array
    ELSE IF Len(s) <= n THEN s ELSE SubSeq(s, Len(s) - n + 1, Len(s))

\* Array.prototype.slice(0, n)
SliceFirst(s, n) == IF Len(s) <= n THEN s ELSE SubSeq(s, 1, n)

\* insert m after every element whose timestamp is not later: a stable sort
RECURSIVE InsertByTs(_, _)
InsertByTs(s, m) ==
    IF s = <<>> THEN <<m>>
    ELSE IF Head(s).ts <= m.ts THEN <<Head(s)>> \o InsertByTs(Tail(s), m)
    ELSE <<m>> \o s

\* Array.prototype.sort((a, b) => time(a) - time(b)): ascending and stable
RECURSIVE SortByTs(_)
SortByTs(s) ==
    IF s = <<>> THEN <<>>
    ELSE InsertByTs(SortByTs(SubSeq(s, 1, Len(s) - 1)), s[Len(s)])

Ids(s) == {s[i].id : i \in 1..Len(s)}

Put(f, k, v) == [x \in DOMAIN f \cup {k} |-> IF x = k THEN v ELSE f[x]]

Remove(f, k) == [x \in DOMAIN f \ {k} |-> f[x]]

Filter(s, keep(_)) == SelectSeq(s, keep)

\* the sequences over S that list every element of S once
Perms(S) ==
    {p \in [1..Cardinality(S) -> S] : \A i, j \in 1..Cardinality(S) : p[i] = p[j] => i = j}

(***************************************************************************)
(* Token extraction.  A page is what the upstream serves for a video URL:  *)
(*   ok      the GET / the navigation and the wait for the chat frame      *)
(*           succeeded;                                                    *)
(*   reload  ...liveChatRenderer.continuations[0].reloadContinuationData   *)
(*   inval   ...continuations[0].invalidationContinuationData              *)
(*   raw     the first bare "continuation":"..." field of the HTML         *)
(*   key     INNERTUBE_API_KEY and INNERTUBE_CLIENT_VERSION are present    *)
(*   anchor  the channel name in the HTML's <a href="/@..."> tag           *)
(* A token set keeps the continuation, the key, the raw HTML (here: its    *)
(* channel anchor) and Date.now() of its extraction.                       *)
(***************************************************************************)
Page(ok, reload, inval, raw, key, anchor) ==
    [ok |-> ok, reload |-> reload, inval |-> inval, raw |-> raw, key |-> key,
     anchor |-> anchor]

Tokens(cont, key, anchor, t) ==
    [cont |-> cont, key |-> key, rawHtml |-> anchor, timestamp |-> t]

NoTokens == Tokens("", FALSE, "", -1)

Extracted(ok, tok, tc, fetched) ==
    [ok |-> ok, tok |-> tok, tc |-> tc, fetched |-> fetched]

\* a cache check that never finds a usable entry
TokenFreshNever(tc, url, t) == FALSE

\* the cache check that opens every extractYouTubeTokens
TokenFresh(tc, url, t) ==
    url \in DOMAIN tc /\ t - tc[url].timestamp < TOKEN_CACHE_EXPIRATION

\* the token set scraping/puppeteer.ts builds from the rendered page
PageTokensPup(pg, t) == Tokens(pg.reload, pg.key, pg.anchor, t)

\* the token set directTokenExtractor.ts builds: the structured path, then the
\* bare field of the HTML
PageTokensTs(pg, t) ==
    Tokens(IF pg.reload # "" THEN pg.reload ELSE pg.raw, pg.key, pg.anchor, t)

\* extractLiveChatTokenFromData of directTokenExtractor.js
extractLiveChatTokenFromData(pg) ==
    IF pg.reload # "" THEN pg.reload ELSE pg.inval

\* extractYouTubeTokens of scraping/puppeteer.ts, run with no other call in
\* flight (activePages is empty, so the wait-and-recheck branch is not taken)
ExtractPup(tc, url, t, pg) ==
    IF TokenFresh(tc, url, t) THEN Extracted(TRUE, tc[url], tc, FALSE)
    ELSE IF ~pg.ok THEN Extracted(FALSE, NoTokens, tc, TRUE)
    ELSE Extracted(TRUE, PageTokensPup(pg, t), Put(tc, url, PageTokensPup(pg, t)), TRUE)

\* extractYouTubeTokens of directTokenExtractor.ts
ExtractTs(tc, url, t, pg) ==
    IF TokenFresh(tc, url, t) THEN Extracted(TRUE, tc[url], tc, FALSE)
    ELSE IF ~pg.ok THEN Extracted(FALSE, NoTokens, tc, TRUE)
    ELSE Extracted(TRUE, PageTokensTs(pg, t), Put(tc, url, PageTokensTs(pg, t)), TRUE)

\* extractYouTubeTokens of directTokenExtractor.js: null (ok = FALSE) when the
\* GET fails or no continuation is found, and then nothing is cached
ExtractJs(tc, url, t, pg) ==
    IF TokenFresh(tc, url, t) THEN Extracted(TRUE, tc[url], tc, FALSE)
    ELSE IF ~pg.ok THEN Extracted(FALSE, NoTokens, tc, TRUE)
    ELSE IF extractLiveChatTokenFromData(pg) = "" THEN Extracted(FALSE, NoTokens, tc, TRUE)
    ELSE LET r == Tokens(extractLiveChatTokenFromData(pg), pg.key, pg.anchor, t)
         IN Extracted(TRUE, r, Put(tc, url, r), TRUE)

(***************************************************************************)
(* The chat poll.  A poll is the upstream's answer to one get_live_chat    *)
(* request: kind "fail" (network error or non-2xx), "noenv" (a body with   *)
(* no continuationContents) or "ok" with the raw items and the next        *)
(* continuation.                                                           *)
(***************************************************************************)
Poll(kind, items, next) == [kind |-> kind, items |-> items, next |-> next]

Fetched(ok, items, continuation) ==
    [ok |-> ok, items |-> items, continuation |-> continuation]

\* fetchLiveChatMessages of scraping/puppeteer.ts: throws (ok = FALSE) on
\* missing tokens and on a failed request; the object it returns is
\* {data, videoUrl}, so its .continuation is undefined
fetchLiveChatMessagesPup(tok, poll) ==
    IF ~tok.key \/ tok.cont = "" THEN Fetched(FALSE, <<>>, "")
    ELSE IF poll.kind = "fail" THEN Fetched(FALSE, <<>>, "")
    ELSE IF poll.kind = "noenv" THEN Fetched(TRUE, <<>>, "")
    ELSE Fetched(TRUE, poll.items, "")

\* fetchLiveChatMessages of directTokenExtractor.js: never throws; the items
\* of the chat actions, cut to the page size, and the next continuation
fetchLiveChatMessagesJs(poll, pageSize) ==
    IF poll.kind # "ok" THEN Fetched(TRUE, <<>>, "")
    ELSE LET IsItem(it) == it.kind # "other"
         IN Fetched(TRUE, SliceFirst(Filter(poll.items, IsItem), pageSize), poll.next)

Formatted(ok, msgs) == [ok |-> ok, msgs |-> msgs]

RECURSIVE ToMsgs(_, _)
ToMsgs(items, src) ==
    IF items = <<>> THEN <<>>
    ELSE (IF Head(items).kind = "text"
          THEN <<Msg(Head(items).id, Head(items).ts, src)>> ELSE <<>>)
         \o ToMsgs(Tail(items), src)

\* formatChatMessages of utils/formatters.ts: no try around one item, so an
\* item of the wrong type throws out of the whole batch
formatChatMessagesTs(items, url) ==
    IF \E i \in 1..Len(items) : items[i].kind = "bad" THEN Formatted(FALSE, <<>>)
    ELSE Formatted(TRUE,
                   ToMsgs(items, IF extractVideoId(url) = "" THEN "unknown"
                                 ELSE extractVideoId(url)))

\* formatChatMessages of utils/formatters.js: each item in its own try
formatChatMessagesJs(items, vid) == ToMsgs(items, vid)

(***************************************************************************)
(* The message cache of the incremental build.                             *)
(***************************************************************************)
Entry(messages, lastFetched, continuation) ==
    [messages |-> messages, lastFetched |-> lastFetched, continuation |-> continuation]

\* "Clean up expired cache entries"
ExpireMessageCache(mc, t) ==
    [v \in {w \in DOMAIN mc : ~(t - mc[w].lastFetched > CACHE_EXPIRATION)} |-> mc[v]]

\* a refresh test that also refreshes an entry of exactly the refresh age
ShouldFetchFreshAtAge(mc, vid, t) ==
    vid \notin DOMAIN mc \/ t - mc[vid].lastFetched >= REFRESH_AGE

\* "Refresh if older than 10 seconds"
ShouldFetchFresh(mc, vid, t) ==
    vid \notin DOMAIN mc \/ t - mc[vid].lastFetched > REFRESH_AGE

\* an update that stores the polled batch in place of the entry
UpdateCacheReplaces(mc, vid, newMessages, t, continuation) ==
    Put(mc, vid, Entry(newMessages, t, continuation))

\* "Update cache": a first batch is stored as it is; a later one is merged
UpdateCacheTs(mc, vid, newMessages, t, continuation) ==
    IF vid \notin DOMAIN mc
    THEN Put(mc, vid, Entry(newMessages, t, continuation))
    ELSE LET old == mc[vid].messages
             IsNew(m) == m.id \notin Ids(old)
             sorted == SortByTs(old \o Filter(newMessages, IsNew))
             kept == IF Len(sorted) > MAX_CACHED_MESSAGES
                     THEN SliceLast(sorted, MAX_CACHED_MESSAGES) ELSE sorted
         IN Put(mc, vid, Entry(kept, t, continuation))

Err(kind, url) == [kind |-> kind, url |-> url]

NoUrl == Url("", "", 0)

\* what the handler writes to the console about one URL: the stage reached
Log(url, stage) == [url |-> url, stage |-> stage]

\* one get_live_chat request: the URL it is for and the continuation in its body
Sent(url, continuation) == [url |-> url, continuation |-> continuation]

\* a catch block that lets the failure escape the task, so that Promise.all
\* rejects
TsTaskCatchRethrow(st, i, url, stage) ==
    [st EXCEPT !.rejected = TRUE, !.log = Append(@, Log(url, stage))]

\* the catch block of one URL's task: an errors entry and no messages
TsTaskCatch(st, i, url, stage) ==
    [st EXCEPT !.errs = Append(@, Err("fetch-failed", url)),
               !.log = Append(@, Log(url, stage)),
               !.res[i] = <<>>]

\* the awaited part of one URL's task: extraction, poll, format, cache update.
\* st is the state the tasks thread: the caches, the errors and each task's
\* returned messages.
TsTaskFinish(st, i, url, t, pg, poll) ==
    LET vid == extractVideoId(url)
        ex == ExtractPup(st.tc, url, t, pg)
        fr == fetchLiveChatMessagesPup(ex.tok, poll)
        fm == formatChatMessagesTs(fr.items, url)
        st1 == [st EXCEPT !.tc = ex.tc]
        st2 == [st1 EXCEPT !.sent = Append(@, Sent(url, ex.tok.cont))]
        mc2 == UpdateCacheTs(st.mc, vid, fm.msgs, t, fr.continuation)
    IN IF ~ex.ok THEN TsTaskCatch(st1, i, url, "extract-failed")
       ELSE IF ~ex.tok.key \/ ex.tok.cont = "" THEN TsTaskCatch(st1, i, url, "extract-failed")
       ELSE IF ~fr.ok THEN TsTaskCatch(st2, i, url, "poll-failed")
       ELSE IF ~fm.ok THEN TsTaskCatch(st2, i, url, "parse-failed")
       ELSE [st2 EXCEPT !.mc = mc2, !.res[i] = mc2[vid].messages,
                        !.log = Append(@, Log(url, "ok"))]

RECURSIVE TsFinishAll(_, _, _, _, _, _)
TsFinishAll(st, ord, urls, t, pages, polls) ==
    IF ord = <<>> THEN st
    ELSE TsFinishAll(TsTaskFinish(st, Head(ord), urls[Head(ord)], t,
                                  pages[Head(ord)], polls[Head(ord)]),
                     Tail(ord), urls, t, pages, polls)

\* the indices of urls whose task reaches the awaits: valid, with a video id,
\* and with no cache entry or one older than the refresh age
FreshTasks(mc, urls, t) ==
    {i \in 1..Len(urls) :
        /\ isValidYouTubeUrlPup(urls[i])
        /\ extractVideoId(urls[i]) # ""
        /\ ShouldFetchFresh(ExpireMessageCache(mc, t), extractVideoId(urls[i]), t)}

\* an exclusion test that excludes nothing
UnseenAlways(id, messageIds) == TRUE

\* the test of the messageIds filter: "!existingIds.has(msg.id)"
Unseen(id, messageIds) == id \notin messageIds

\* a cursor test that lets the cursor's own time pass
NotEarlier(msgTime, afterTime) == msgTime >= afterTime

\* the test of the after filter: "msgTime > afterTime"
Later(msgTime, afterTime) == msgTime > afterTime

\* a page that keeps the tail of the sorted messages
PageTsTail(allMessages, pageSize, after, messageIds) ==
    LET NotSeen(m) == m.id \notin messageIds
        After(m) == m.ts > after
        sorted == SortByTs(Filter(Filter(allMessages, NotSeen), After))
        page == SliceLast(sorted, pageSize)
    IN [messages |-> page, hasMore |-> Len(sorted) > pageSize,
        lastTimestamp |-> IF Len(page) > 0 THEN page[Len(page)].ts ELSE 0]

\* the filters, the sort and the page of the incremental build
PageTs(allMessages, pageSize, after, messageIds) ==
    LET NotSeen(m) == Unseen(m.id, messageIds)
        f1 == IF messageIds # {} THEN Filter(allMessages, NotSeen) ELSE allMessages
        After(m) == Later(m.ts, after)
        f2 == IF after # 0 THEN Filter(f1, After) ELSE f1
        sorted == SortByTs(f2)
        hasMore == Len(sorted) > pageSize
        page == IF hasMore THEN SliceFirst(sorted, pageSize) ELSE sorted
    IN [messages |-> page, hasMore |-> hasMore,
        lastTimestamp |-> IF Len(page) > 0 THEN page[Len(page)].ts ELSE 0]

\* what the call resolves to; log is the console output about each URL and
\* sent the get_live_chat requests the call made
Response(messages, errors, hasMore, lastTimestamp, st) ==
    [messages |-> messages, errors |-> errors, hasMore |-> hasMore,
     lastTimestamp |-> lastTimestamp, rejected |-> st.rejected, log |-> st.log,
     sent |-> st.sent]

\* getLiveChat of api/liveChat.ts.  ord is the order in which the tasks that
\* fetch fresh complete.  The result is the caches and the response.
getLiveChatTs(mc, tc, t, urls, pageSize, after, messageIds, pages, polls, ord) ==
    LET valid == {i \in 1..Len(urls) : isValidYouTubeUrlPup(urls[i])}
        withId == {i \in valid : extractVideoId(urls[i]) # ""}
        mc0 == IF withId # {} THEN ExpireMessageCache(mc, t) ELSE mc
        NoId(i) == i \in valid \ withId
        Cached(i) == i \in withId /\ ~ShouldFetchFresh(mc0, extractVideoId(urls[i]), t)
        syncErrs == [i \in 1..Len(urls) |->
                        IF NoId(i) THEN <<Err("no-video-id", urls[i])>> ELSE <<>>]
        syncLog == [i \in 1..Len(urls) |->
                        IF NoId(i) THEN <<Log(urls[i], "no-id")>>
                        ELSE IF Cached(i) THEN <<Log(urls[i], "cached")>> ELSE <<>>]
        res0 == [i \in 1..Len(urls) |->
                    IF Cached(i) THEN mc0[extractVideoId(urls[i])].messages ELSE <<>>]
        st0 == [mc |-> mc0, tc |-> tc, errs |-> Flat(syncErrs), res |-> res0,
                log |-> Flat(syncLog), rejected |-> FALSE, sent |-> <<>>]
        st == TsFinishAll(st0, ord, urls, t, pages, polls)
        pg == PageTs(Flat(st.res), pageSize, after, messageIds)
    IN IF valid = {}
       THEN [mc |-> mc, tc |-> tc,
             resp |-> Response(<<>>, <<Err("no-valid-urls", NoUrl)>>, FALSE, 0,
                               [rejected |-> FALSE, log |-> <<>>, sent |-> <<>>])]
       ELSE [mc |-> st.mc, tc |-> st.tc,
             resp |-> Response(pg.messages, st.errs, pg.hasMore, pg.lastTimestamp, st)]

(***************************************************************************)
(* getLiveChat of api/liveChat.js (the snapshot build): a sequential loop. *)
(***************************************************************************)
\* the per-video filters and the page of the snapshot build
FilterJs(msgs, pageSize, after, messageIds) ==
    LET After(m) == Later(m.ts, after)
        f1 == IF after # 0 THEN Filter(msgs, After) ELSE msgs
        NotSeen(m) == Unseen(m.id, messageIds)
        f2 == IF messageIds # {} THEN Filter(f1, NotSeen) ELSE f1
    IN IF Len(f2) > pageSize THEN SliceLast(f2, pageSize) ELSE f2

\* errors.push(...); continue
JsSkip(st, kind, url, stage) ==
    [st EXCEPT !.errs = Append(@, Err(kind, url)), !.log = Append(@, Log(url, stage))]

\* one iteration of "for (const url of urls)"
JsUrlStep(st, url, t, pageSize, after, messageIds, pg, poll) ==
    LET vid == extractVideoId(url)
        ex == ExtractJs(st.tc, url, t, pg)
        fr == fetchLiveChatMessagesJs(poll, pageSize)
        fm == formatChatMessagesJs(fr.items, vid)
        pollLog == IF poll.kind = "fail" THEN <<Log(url, "poll-failed")>>
                   ELSE IF poll.kind = "noenv" THEN <<Log(url, "poll-empty")>>
                   ELSE <<>>
        parseLog == IF \E k \in 1..Len(fr.items) : fr.items[k].kind = "bad"
                    THEN <<Log(url, "parse-failed")>> ELSE <<>>
    IN IF ~isValidYouTubeUrlDirect(url)
       THEN JsSkip(st, "invalid-url", url, "invalid")
       ELSE IF vid = ""
       THEN JsSkip(st, "no-video-id", url, "no-id")
       ELSE IF vid \in DOMAIN st.mc /\ t - st.mc[vid].lastFetched < CACHE_EXPIRATION
       THEN [st EXCEPT !.all = @ \o FilterJs(st.mc[vid].messages, pageSize, after, messageIds),
                       !.log = Append(@, Log(url, "cached"))]
       ELSE IF ~ex.ok \/ ex.tok.cont = ""
       THEN JsSkip([st EXCEPT !.tc = ex.tc], "no-tokens", url, "extract-failed")
       ELSE [st EXCEPT !.tc = ex.tc,
                       !.sent = Append(@, Sent(url, ex.tok.cont)),
                       !.mc = Put(@, vid, Entry(SliceLast(fm, MAX_CACHED_MESSAGES), t,
                                                fr.continuation)),
                       !.all = @ \o FilterJs(fm, pageSize, after, messageIds),
                       !.log = @ \o pollLog \o parseLog \o <<Log(url, "ok")>>]

RECURSIVE JsLoop(_, _, _, _, _, _, _, _, _)
JsLoop(st, i, urls, t, pageSize, after, messageIds, pages, polls) ==
    IF i > Len(urls) THEN st
    ELSE JsLoop(JsUrlStep(st, urls[i], t, pageSize, after, messageIds, pages[i], polls[i]),
                i + 1, urls, t, pageSize, after, messageIds, pages, polls)

SnapshotResponse(messages, errors, t, st) ==
    [messages |-> messages, errors |-> errors, totalMessages |-> Len(messages),
     timestamp |-> t, rejected |-> st.rejected, log |-> st.log, sent |-> st.sent]

getLiveChatJs(mc, tc, t, urls, pageSize, after, messageIds, pages, polls) ==
    LET st == JsLoop([mc |-> mc, tc |-> tc, errs |-> <<>>, all |-> <<>>, log |-> <<>>,
                      rejected |-> FALSE, sent |-> <<>>],
                     1, urls, t, pageSize, after, messageIds, pages, polls)
    IN [mc |-> st.mc, tc |-> st.tc,
        resp |-> SnapshotResponse(SortByTs(st.all), st.errs, t, st)]

(***************************************************************************)
(* getVideoMetadata of api/videoMetadata.ts (the incremental build).  The  *)
(* upstream's answer to the two metadata POSTs of one URL is kind "fail"   *)
(* (either POST fails) or "ok" with the primary and the backup body; a     *)
(* body has a shape ("actions", "contents" or "none") and the fields the   *)
(* parser probes, "" / 0 / FALSE when absent.                              *)
(***************************************************************************)
CHANNEL_CACHE_EXPIRATION == 4   \* 24 * 60 * 60 * 1000 ms

Fields(title, viewCount, likeCount, channelName, isLive) ==
    [title |-> title, viewCount |-> viewCount, likeCount |-> likeCount,
     channelName |-> channelName, isLive |-> isLive]

Body(shape, f) == [shape |-> shape, f |-> f]

NoBody == Body("none", Fields("", 0, 0, "", FALSE))

MetaUp(kind, primary, backup) == [kind |-> kind, primary |-> primary, backup |-> backup]

Metadata(videoId, videoUrl, f, error) ==
    [videoId |-> videoId, videoUrl |-> videoUrl, title |-> f.title,
     viewCount |-> f.viewCount, likeCount |-> f.likeCount, isLive |-> f.isLive,
     channelName |-> f.channelName, error |-> error]

\* fetchVideoMetadata of utils/directTokenExtractor.ts: throws (ok = FALSE)
\* without the key, without a video id and when either POST fails
fetchVideoMetadataTs(url, tok, up) ==
    IF ~tok.key \/ extractVideoId(url) = "" \/ up.kind = "fail"
    THEN [ok |-> FALSE, primary |-> NoBody, backup |-> NoBody]
    ELSE [ok |-> TRUE, primary |-> up.primary, backup |-> up.backup]

\* extractChannelNameFromHTML: the text of the channel anchor, "" for null
extractChannelNameFromHTML(html) == html

\* parseMetadata: the record and the channel-name cache it leaves
parseMetadataTs(data, videoUrl, videoId, source, extractedChannelName, cnc, t) ==
    LET cached == /\ videoId \in DOMAIN cnc
                  /\ t - cnc[videoId].timestamp < CHANNEL_CACHE_EXPIRATION
        name0 == IF cached THEN cnc[videoId].name ELSE extractedChannelName
        cnc1 == IF ~cached /\ extractedChannelName # ""
                THEN Put(cnc, videoId, [name |-> extractedChannelName, timestamp |-> t])
                ELSE cnc
        read == \/ source = "primary" /\ data.shape = "actions"
                \/ source = "backup" /\ data.shape = "contents"
        f == IF read THEN data.f ELSE NoBody.f
        named == f.channelName # ""
        cnc2 == IF named
                THEN Put(cnc1, videoId, [name |-> f.channelName, timestamp |-> t])
                ELSE cnc1
    IN [md |-> Metadata(videoId, videoUrl,
                        [f EXCEPT !.channelName = IF named THEN @ ELSE name0], ""),
        cnc |-> cnc2]

\* a merge in which the backup wins whenever it supplies a field
MergeBackupOverwrites(m, b) ==
    [m EXCEPT !.title = IF b.title # "" THEN b.title ELSE @,
              !.viewCount = IF b.viewCount > 0 THEN b.viewCount ELSE @,
              !.likeCount = IF b.likeCount > 0 THEN b.likeCount ELSE @,
              !.channelName = IF b.channelName # "" THEN b.channelName ELSE @,
              !.isLive = IF b.isLive THEN b.isLive ELSE @]

\* the merge of the backup record into the primary one
MergeBackup(m, b) ==
    [m EXCEPT !.title = IF m.title = "" /\ b.title # "" THEN b.title ELSE @,
              !.viewCount = IF m.viewCount = 0 /\ b.viewCount > 0 THEN b.viewCount ELSE @,
              !.likeCount = IF m.likeCount = 0 /\ b.likeCount > 0 THEN b.likeCount ELSE @,
              !.channelName = IF m.channelName = "" /\ b.channelName # ""
                              THEN b.channelName ELSE @,
              !.isLive = IF ~m.isLive /\ b.isLive THEN b.isLive ELSE @]

\* the catch block of one URL's task: an errors entry and an error record
MetaTaskCatch(st, i, url, videoId, stage) ==
    [st EXCEPT !.errs = Append(@, Err("fetch-failed", url)),
               !.log = Append(@, Log(url, stage)),
               !.res[i] = Metadata(videoId, url, NoBody.f, "fetch-failed")]

\* one URL's task
MetaTaskFinish(st, i, url, t, pg, up) ==
    LET videoId == IF extractVideoId(url) = "" THEN "unknown" ELSE extractVideoId(url)
        ex == ExtractTs(st.tc, url, t, pg)
        fv == fetchVideoMetadataTs(url, ex.tok, up)
        name == extractChannelNameFromHTML(ex.tok.rawHtml)
        p == parseMetadataTs(fv.primary, url, videoId, "primary", name, st.cnc, t)
        b == parseMetadataTs(fv.backup, url, videoId, "backup", name, p.cnc, t)
        needBackup == p.md.title = "" \/ p.md.viewCount = 0
        st1 == [st EXCEPT !.tc = ex.tc]
    IN IF ~ex.ok THEN MetaTaskCatch(st1, i, url, videoId, "extract-failed")
       ELSE IF ~fv.ok THEN MetaTaskCatch(st1, i, url, videoId, "poll-failed")
       ELSE [st1 EXCEPT !.cnc = IF needBackup THEN b.cnc ELSE p.cnc,
                        !.res[i] = IF needBackup THEN MergeBackup(p.md, b.md) ELSE p.md,
                        !.log = Append(@, Log(url, "ok"))]

RECURSIVE MetaFinishAll(_, _, _, _, _, _)
MetaFinishAll(st, ord, urls, t, pages, ups) ==
    IF ord = <<>> THEN st
    ELSE MetaFinishAll(MetaTaskFinish(st, Head(ord), urls[Head(ord)], t,
                                      pages[Head(ord)], ups[Head(ord)]),
                       Tail(ord), urls, t, pages, ups)

\* the indices of urls that get a task
MetaTasks(urls) == {i \in 1..Len(urls) : isValidYouTubeUrlDirect(urls[i])}

MetaResponse(metadata, errors, st) ==
    [metadata |-> metadata, errors |-> errors, rejected |-> st.rejected, log |-> st.log]

\* getVideoMetadata.  ord is the order in which the tasks complete.  The
\* result is the two caches and the response.
getVideoMetadataTs(tc, cnc, t, urls, pages, ups, ord) ==
    LET st0 == [tc |-> tc, cnc |-> cnc, errs |-> <<>>,
                res |-> [i \in 1..Len(urls) |-> Metadata("", NoUrl, NoBody.f, "")],
                log |-> <<>>, rejected |-> FALSE]
        st == MetaFinishAll(st0, ord, urls, t, pages, ups)
        records == [i \in 1..Len(urls) |->
                        IF i \in MetaTasks(urls) THEN <<st.res[i]>> ELSE <<>>]
    IN IF MetaTasks(urls) = {}
       THEN [tc |-> tc, cnc |-> cnc,
             resp |-> MetaResponse(<<>>, <<Err("no-valid-urls", NoUrl)>>, st0)]
       ELSE [tc |-> st.tc, cnc |-> st.cnc,
             resp |-> MetaResponse(Flat(records), st.errs, st)]

(***************************************************************************)
(* The actions of the aggregation layer.                                   *)
(***************************************************************************)
Call(op, urls, pageSize, after, messageIds, pages, polls, resp) ==
    [op |-> op, urls |-> urls, pageSize |-> pageSize, after |-> after,
     messageIds |-> messageIds, pages |-> pages, polls |-> polls, resp |-> resp]

NoCall == [op |-> "none"]

\* one call of the incremental getLiveChat, start to return
GetLiveChatTs(urls, pageSize, after, messageIds, pages, polls, ord) ==
    /\ variant = "incremental"
    /\ LET r == getLiveChatTs(messageCache, tokenCache, now, urls, pageSize, after,
                              messageIds, pages, polls, ord)
       IN /\ messageCache' = r.mc
          /\ tokenCache' = r.tc
          /\ last' = Call("getLiveChat", urls, pageSize, after, messageIds, pages, polls,
                          r.resp)
    /\ UNCHANGED <<variant, now, metaVars, extractVars>>

\* one call of the snapshot getLiveChat, start to return
GetLiveChatJs(urls, pageSize, after, messageIds, pages, polls) ==
    /\ variant = "snapshot"
    /\ LET r == getLiveChatJs(messageCache, tokenCache, now, urls, pageSize, after,
                              messageIds, pages, polls)
       IN /\ messageCache' = r.mc
          /\ tokenCache' = r.tc
          /\ last' = Call("getLiveChat", urls, pageSize, after, messageIds, pages, polls,
                          r.resp)
    /\ UNCHANGED <<variant, now, metaVars, extractVars>>

\* one call of getVideoMetadata of the incremental build, start to return
GetVideoMetadataTs(urls, pages, ups, ord) ==
    /\ variant = "incremental"
    /\ LET r == getVideoMetadataTs(directTokenCache, channelNameCache, now, urls, pages,
                                   ups, ord)
       IN /\ directTokenCache' = r.tc
          /\ channelNameCache' = r.cnc
          /\ last' = Call("getVideoMetadata", urls, 0, 0, {}, pages, ups, r.resp)
    /\ UNCHANGED <<variant, now, chatVars, extractVars>>

\* time passes between two calls
Tick ==
    /\ now < MaxTime
    /\ now' = now + 1
    /\ UNCHANGED <<variant, chatVars, metaVars, last, extractVars>>

Empty == [x \in {} |-> 0]

InitChat ==
    /\ variant \in {"incremental", "snapshot"}
    /\ now = 0
    /\ tokenCache = Empty
    /\ messageCache = Empty
    /\ directTokenCache = Empty
    /\ channelNameCache = Empty
    /\ last = NoCall
    /\ calls = <<>>
    /\ browserInstance = 0
    /\ browserCreationInProgress = FALSE
    /\ browserCreationPromise = 0
    /\ activePages = Empty
    /\ browsers = <<>>
    /\ creations = <<>>
    /\ tabs = <<>>
    /\ lastFetch = Empty

(***************************************************************************)
(* SpecChat: one video polled again and again.  The raw batches are over   *)
(* three text messages (two of them with the same timestamp) and cover the *)
(* empty batch, batches in and out of timestamp order, a batch that        *)
(* repeats an id, a batch longer than the cache cap and a malformed item.  *)
(***************************************************************************)
A1 == RawItem("text", 1, 1)

A2 == RawItem("text", 2, 2)

A3 == RawItem("text", 3, 2)

ChatBatches ==
    {<<>>, <<A1>>, <<A3>>, <<A1, A2>>, <<A2, A1>>, <<A1, A1>>, <<A2, A3>>,
     <<A1, A2, A3>>}

ChatPolls ==
    {Poll("ok", b, "c1") : b \in ChatBatches}
    \cup {Poll("ok", <<RawItem("bad", 9, 1)>>, "c1"), Poll("fail", <<>>, ""),
          Poll("noenv", <<>>, "")}

ChatPages == {Page(TRUE, "c0", "", "c0", TRUE, ""), Page(FALSE, "", "", "", FALSE, "")}

NextChat ==
    \/ \E pg \in ChatPages, pl \in ChatPolls :
          GetLiveChatTs(<<UrlA>>, 3, 0, {}, <<pg>>, <<pl>>,
                        IF FreshTasks(messageCache, <<UrlA>>, now) = {} THEN <<>> ELSE <<1>>)
    \/ \E pg \in ChatPages, pl \in ChatPolls :
          GetLiveChatJs(<<UrlA>>, 3, 0, {}, <<pg>>, <<pl>>)
    \/ Tick

SpecChat == InitChat /\ [][NextChat]_vars

(***************************************************************************)
(* SpecAgg: calls with several URLs, valid and malformed, whose upstream   *)
(* answers succeed or fail per URL at each stage.  The chat handlers and   *)
(* the metadata handler of the incremental build share no state, so their  *)
(* calls are not interleaved: each runs while the other's caches are       *)
(* empty.                                                                  *)
(***************************************************************************)
MaxAggTime == 1     \* the clock of SpecAgg stops here

GoodPage == Page(TRUE, "c0", "", "c0", TRUE, "chan")

DownPage == Page(FALSE, "", "", "", FALSE, "")

\* the one message the upstream has for the URL at position i
AggItem(i) == RawItem("text", 10 + i, 3 - i)

Outcome(pg, poll) == [pg |-> pg, poll |-> poll]

ChatOutcomes(url, i) ==
    IF url.shape = "other" THEN {Outcome(DownPage, Poll("fail", <<>>, ""))}
    ELSE {Outcome(GoodPage, Poll("ok", <<AggItem(i)>>, "c1")),
          Outcome(GoodPage, Poll("fail", <<>>, "")),
          Outcome(GoodPage, Poll("ok", <<RawItem("bad", 9, 1), AggItem(i)>>, "c1")),
          Outcome(DownPage, Poll("fail", <<>>, ""))}

MetaOutcomes(url, i) ==
    IF url.shape = "other" THEN {Outcome(DownPage, MetaUp("fail", NoBody, NoBody))}
    ELSE {Outcome(GoodPage, MetaUp("ok", Body("actions", Fields("T", 5 + i, 1, "", TRUE)),
                                   NoBody)),
          Outcome(GoodPage, MetaUp("ok", NoBody,
                                   Body("contents", Fields("T", 7, 0, "owner", FALSE)))),
          Outcome(GoodPage, MetaUp("fail", NoBody, NoBody)),
          Outcome(DownPage, MetaUp("fail", NoBody, NoBody))}

AggUrlLists ==
    {<<UrlA, UrlB>>, <<UrlA, UrlBad>>, <<UrlBad, UrlB>>, <<UrlBad>>}

\* one outcome per position of urls
OutcomeSeqs(urls, Outs(_, _)) ==
    {os \in [1..Len(urls) -> UNION {Outs(urls[i], i) : i \in 1..Len(urls)}] :
        \A i \in 1..Len(urls) : os[i] \in Outs(urls[i], i)}

PagesOf(os) == [i \in 1..Len(os) |-> os[i].pg]

PollsOf(os) == [i \in 1..Len(os) |-> os[i].poll]

AggPageSize == 1    \* the pageSize of every request of SpecAgg

AggTick == now < MaxAggTime /\ Tick

NextAgg ==
    \/ \E urls \in AggUrlLists :
         \E os \in OutcomeSeqs(urls, ChatOutcomes),
            ord \in Perms(FreshTasks(messageCache, urls, now)) :
            /\ directTokenCache = Empty /\ channelNameCache = Empty
            /\ GetLiveChatTs(urls, AggPageSize, 0, {}, PagesOf(os), PollsOf(os), ord)
    \/ \E urls \in AggUrlLists :
         \E os \in OutcomeSeqs(urls, ChatOutcomes) :
            GetLiveChatJs(urls, AggPageSize, 0, {}, PagesOf(os), PollsOf(os))
    \/ \E urls \in AggUrlLists :
         \E os \in OutcomeSeqs(urls, MetaOutcomes), ord \in Perms(MetaTasks(urls)) :
            /\ tokenCache = Empty /\ messageCache = Empty
            /\ GetVideoMetadataTs(urls, PagesOf(os), PollsOf(os), ord)
    \/ AggTick

SpecAgg == InitChat /\ [][NextAgg]_vars

(***************************************************************************)
(* Token extraction as concurrent calls.  A call of extractYouTubeTokens   *)
(* is a process that moves from await to await; the shared browser of      *)
(* scraping/puppeteer.ts is created by getBrowser, whose creation closure  *)
(* is a process of its own.  Call c opens at most one tab, tab c; creation *)
(* k launches at most one browser, browser k.                              *)
(***************************************************************************)
MaxCalls == 3       \* extractYouTubeTokens calls of a behaviour

MaxCreations == 2   \* browser creations of a behaviour

CallIds == 1..MaxCalls

CreationIds == 1..MaxCreations

MaxInFlight == 2    \* calls in flight at a time

IdleCall ==
    [pc |-> "idle", url |-> NoUrl, page |-> 0, browser |-> 0, creation |-> 0,
     out |-> "", age |-> 0, cont |-> ""]

\* the call has returned (out "hit", "waited", "fresh", "none") or thrown
\* ("error"); age and cont describe a token set it returned
Return(call, out, age, cont) ==
    [call EXCEPT !.pc = "done", !.out = out, !.age = age, !.cont = cont,
                 !.page = 0, !.browser = 0, !.creation = 0]

InFlight == {c \in CallIds : calls[c].pc \notin {"idle", "done"}}

NoTab == [st |-> "none", browser |-> 0]

NoCreation == [pc |-> "none"]

\* the creation ids not used yet
FreeCreations == {k \in CreationIds : creations[k].pc = "none"}

\* browserInstance && browserInstance.isConnected()
InstanceConnected ==
    browserInstance # 0 /\ browsers[browserInstance] \in {"launched", "installed"}

\* a getBrowser that starts a second creation whatever is in flight
JoinsNever == FALSE

\* getBrowser joins the creation in flight
JoinsCreation == browserCreationInProgress /\ browserCreationPromise # 0

\* getBrowser up to its first await, called by call c: the connected instance,
\* the creation in flight, or a new creation whose closure starts to run
EnterGetBrowser(c, call) ==
    IF InstanceConnected
    THEN /\ calls' = [calls EXCEPT ![c] = [call EXCEPT !.pc = "gotBrowser",
                                                      !.browser = browserInstance]]
         /\ UNCHANGED <<browserCreationInProgress, browserCreationPromise, creations>>
    ELSE IF JoinsCreation
    THEN /\ calls' = [calls EXCEPT ![c] = [call EXCEPT !.pc = "awaitCreation",
                                                      !.creation = browserCreationPromise]]
         /\ UNCHANGED <<browserCreationInProgress, browserCreationPromise, creations>>
    ELSE /\ FreeCreations # {}
         /\ LET k == CHOOSE x \in FreeCreations : \A y \in FreeCreations : x <= y
            IN /\ browserCreationInProgress' = TRUE
               /\ browserCreationPromise' = k
               /\ creations' = [creations EXCEPT ![k] = [pc |-> "launching"]]
               /\ calls' = [calls EXCEPT ![c] = [call EXCEPT !.pc = "awaitCreation",
                                                            !.creation = k]]

\* the start of a call in the browser variant: the cache check, the look at
\* activePages, the wait or getBrowser
BeginPup(c, url) ==
    LET call == [calls[c] EXCEPT !.url = url]
    IN IF TokenFresh(tokenCache, url, now)
       THEN /\ calls' = [calls EXCEPT ![c] =
                            Return(call, "hit", now - tokenCache[url].timestamp,
                                   tokenCache[url].cont)]
            /\ UNCHANGED <<browserCreationInProgress, browserCreationPromise, creations>>
       ELSE IF url \notin DOMAIN activePages /\ DOMAIN activePages # {}
       THEN /\ calls' = [calls EXCEPT ![c] = [call EXCEPT !.pc = "waiting"]]
            /\ UNCHANGED <<browserCreationInProgress, browserCreationPromise, creations>>
       ELSE EnterGetBrowser(c, [call EXCEPT !.page = IF url \in DOMAIN activePages
                                                     THEN activePages[url] ELSE 0])

\* the start of a call in the direct variants: the cache check, then the GET
BeginDirect(c, url) ==
    LET call == [calls[c] EXCEPT !.url = url]
    IN /\ calls' = [calls EXCEPT ![c] =
                       IF TokenFresh(tokenCache, url, now)
                       THEN Return(call, "hit", now - tokenCache[url].timestamp,
                                   tokenCache[url].cont)
                       ELSE [call EXCEPT !.pc = "fetching"]]
       /\ UNCHANGED <<browserCreationInProgress, browserCreationPromise, creations>>

\* extractYouTubeTokens(url) is called; calls start in the order of their ids
Begin(c, url) ==
    /\ calls[c].pc = "idle"
    /\ IF c = 1 THEN TRUE ELSE calls[c - 1].pc # "idle"
    /\ Cardinality(InFlight) < MaxInFlight
    /\ IF variant = "browser" THEN BeginPup(c, url) ELSE BeginDirect(c, url)
    /\ UNCHANGED <<variant, now, tokenCache, messageCache, metaVars, last,
                   browserInstance, activePages, browsers, tabs, lastFetch>>

\* the 2 s wait is over: whatever the cache holds for the URL is returned
AfterWait(c) ==
    /\ calls[c].pc = "waiting"
    /\ IF calls[c].url \in DOMAIN tokenCache
       THEN /\ calls' = [calls EXCEPT ![c] =
                            Return(@, "waited", now - tokenCache[calls[c].url].timestamp,
                                   tokenCache[calls[c].url].cont)]
            /\ UNCHANGED <<browserCreationInProgress, browserCreationPromise, creations>>
       ELSE EnterGetBrowser(c, calls[c])
    /\ UNCHANGED <<variant, now, tokenCache, messageCache, metaVars, last,
                   browserInstance, activePages, browsers, tabs, lastFetch>>

\* the catch and the finally block of call c: the page activePages holds for
\* the URL is closed and the entry deleted; the call throws
Throw(c, call) ==
    LET url == call.url
        p == IF url \in DOMAIN activePages THEN activePages[url] ELSE 0
    IN /\ calls' = [calls EXCEPT ![c] = Return(call, "error", 0, "")]
       /\ tabs' = IF p # 0 /\ tabs[p].st = "open"
                  THEN [tabs EXCEPT ![p].st = "closed"] ELSE tabs
       /\ activePages' = IF p # 0 THEN Remove(activePages, url) ELSE activePages

\* the awaited creation has settled
CreationSettled(c) ==
    /\ calls[c].pc = "awaitCreation"
    /\ creations[calls[c].creation].pc \in {"ok", "failed"}
    /\ IF creations[calls[c].creation].pc = "ok"
       THEN /\ calls' = [calls EXCEPT ![c].pc = "gotBrowser",
                                      ![c].browser = calls[c].creation]
            /\ UNCHANGED <<tabs, activePages>>
       ELSE Throw(c, calls[c])
    /\ UNCHANGED <<variant, now, tokenCache, messageCache, metaVars, last,
                   browserInstance, browserCreationInProgress, browserCreationPromise,
                   browsers, creations, lastFetch>>

\* browser.newPage() and activePages.set, unless the call reuses the page it
\* found in activePages
NewPage(c) ==
    /\ calls[c].pc = "gotBrowser"
    /\ IF calls[c].page # 0
       THEN /\ calls' = [calls EXCEPT ![c].pc = "navigating"]
            /\ UNCHANGED <<tabs, activePages>>
       ELSE IF browsers[calls[c].browser] \in {"launched", "installed"}
       THEN /\ calls' = [calls EXCEPT ![c].pc = "navigating", ![c].page = c]
            /\ tabs' = [tabs EXCEPT ![c] = [st |-> "open", browser |-> calls[c].browser]]
            /\ activePages' = Put(activePages, calls[c].url, c)
       ELSE Throw(c, calls[c])
    /\ UNCHANGED <<variant, now, tokenCache, messageCache, metaVars, last,
                   browserInstance, browserCreationInProgress, browserCreationPromise,
                   browsers, creations, lastFetch>>

\* goto, waitForSelector and the evaluations on the call's page, and the
\* cache write that follows
Navigate(c, pg) ==
    /\ calls[c].pc = "navigating"
    /\ IF pg.ok /\ tabs[calls[c].page].st = "open"
       THEN /\ tokenCache' = Put(tokenCache, calls[c].url, PageTokensPup(pg, now))
            /\ calls' = [calls EXCEPT ![c].pc = "closing", ![c].cont = pg.reload]
            /\ UNCHANGED <<tabs, activePages>>
       ELSE /\ Throw(c, calls[c])
            /\ UNCHANGED tokenCache
    /\ lastFetch' = IF tabs[calls[c].page].st = "open"
                    THEN Put(lastFetch, calls[c].url, now) ELSE lastFetch
    /\ UNCHANGED <<variant, now, messageCache, metaVars, last,
                   browserInstance, browserCreationInProgress, browserCreationPromise,
                   browsers, creations>>

\* page.close() and activePages.delete after the cache write, then the return
ClosePage(c) ==
    /\ calls[c].pc = "closing"
    /\ IF tabs[calls[c].page].st = "open"
       THEN /\ tabs' = [tabs EXCEPT ![calls[c].page].st = "closed"]
            /\ activePages' = Remove(activePages, calls[c].url)
            /\ calls' = [calls EXCEPT ![c] = Return(@, "fresh", 0, calls[c].cont)]
       ELSE Throw(c, calls[c])
    /\ UNCHANGED <<variant, now, tokenCache, messageCache, metaVars, last,
                   browserInstance, browserCreationInProgress, browserCreationPromise,
                   browsers, creations, lastFetch>>

\* the finally block of the creation closure
ReleaseLock ==
    /\ browserCreationInProgress' = FALSE
    /\ browserCreationPromise' = 0

\* puppeteer.launch / puppeteer.connect of creation k settles
Launch(k, ok) ==
    /\ creations[k].pc = "launching"
    /\ IF ok
       THEN /\ creations' = [creations EXCEPT ![k].pc = "closingBlank"]
            /\ browsers' = [browsers EXCEPT ![k] = "launched"]
            /\ UNCHANGED <<browserCreationInProgress, browserCreationPromise>>
       ELSE /\ creations' = [creations EXCEPT ![k].pc = "failed"]
            /\ ReleaseLock
            /\ UNCHANGED browsers
    /\ UNCHANGED <<variant, now, tokenCache, messageCache, metaVars, last,
                   calls, browserInstance, activePages, tabs, lastFetch>>

\* the blank tab is closed, the disconnected handler registered and the
\* browser stored; when the browser has died meanwhile the creation fails
Install(k) ==
    /\ creations[k].pc = "closingBlank"
    /\ IF browsers[k] = "launched"
       THEN /\ browsers' = [browsers EXCEPT ![k] = "installed"]
            /\ browserInstance' = k
            /\ creations' = [creations EXCEPT ![k].pc = "ok"]
       ELSE /\ creations' = [creations EXCEPT ![k].pc = "failed"]
            /\ UNCHANGED <<browsers, browserInstance>>
    /\ ReleaseLock
    /\ UNCHANGED <<variant, now, tokenCache, messageCache, metaVars, last,
                   calls, activePages, tabs, lastFetch>>

\* a handler that leaves the tab map alone
DisconnectedHandlerKeepsPages(b) ==
    /\ browserInstance' = IF browserInstance = b THEN 0 ELSE browserInstance
    /\ activePages' = activePages

\* the 'disconnected' handler of browser b
DisconnectedHandler(b) ==
    /\ browserInstance' = IF browserInstance = b THEN 0 ELSE browserInstance
    /\ activePages' = Empty

\* browser b crashes or loses its connection: its tabs are gone, and its
\* handler runs when it has one
Disconnect(b) ==
    /\ browsers[b] \in {"launched", "installed"}
    /\ browsers' = [browsers EXCEPT ![b] = "gone"]
    /\ tabs' = [c \in CallIds |->
                   IF tabs[c].st = "open" /\ tabs[c].browser = b
                   THEN [tabs[c] EXCEPT !.st = "closed"] ELSE tabs[c]]
    /\ IF browsers[b] = "installed" THEN DisconnectedHandler(b)
       ELSE UNCHANGED <<browserInstance, activePages>>
    /\ UNCHANGED <<variant, now, tokenCache, messageCache, metaVars, last,
                   calls, browserCreationInProgress, browserCreationPromise, creations,
                   lastFetch>>

\* the GET of a direct-variant call settles
FinishDirect(c, pg) ==
    /\ calls[c].pc = "fetching"
    /\ LET url == calls[c].url
           call == calls[c]
           ts == PageTokensTs(pg, now)
           js == Tokens(extractLiveChatTokenFromData(pg), pg.key, pg.anchor, now)
       IN IF variant = "directTs"
          THEN IF pg.ok
               THEN /\ tokenCache' = Put(tokenCache, url, ts)
                    /\ calls' = [calls EXCEPT ![c] = Return(call, "fresh", 0, ts.cont)]
               ELSE /\ calls' = [calls EXCEPT ![c] = Return(call, "error", 0, "")]
                    /\ UNCHANGED tokenCache
          ELSE IF pg.ok /\ js.cont # ""
               THEN /\ tokenCache' = Put(tokenCache, url, js)
                    /\ calls' = [calls EXCEPT ![c] = Return(call, "fresh", 0, js.cont)]
               ELSE /\ calls' = [calls EXCEPT ![c] = Return(call, "none", 0, "")]
                    /\ UNCHANGED tokenCache
    /\ lastFetch' = Put(lastFetch, calls[c].url, now)
    /\ UNCHANGED <<variant, now, messageCache, metaVars, last, browserInstance,
                   browserCreationInProgress, browserCreationPromise, activePages,
                   browsers, creations, tabs>>

InitBrowser ==
    /\ calls = [c \in CallIds |-> IdleCall]
    /\ browserInstance = 0
    /\ browserCreationInProgress = FALSE
    /\ browserCreationPromise = 0
    /\ activePages = Empty
    /\ browsers = [k \in CreationIds |-> "none"]
    /\ creations = [k \in CreationIds |-> NoCreation]
    /\ tabs = [c \in CallIds |-> NoTab]
    /\ lastFetch = Empty

InitExtract ==
    /\ variant \in {"browser", "directTs", "directJs"}
    /\ now = 0
    /\ tokenCache = Empty
    /\ messageCache = Empty
    /\ directTokenCache = Empty
    /\ channelNameCache = Empty
    /\ last = NoCall
    /\ InitBrowser

(***************************************************************************)
(* SpecExtract: up to MaxCalls calls of extractYouTubeTokens for two URLs, *)
(* overlapping in every way, against pages that yield a continuation, no   *)
(* continuation, or fail, with browser launches that fail and browsers     *)
(* that disconnect at any time.                                            *)
(***************************************************************************)
EmptyPage == Page(TRUE, "", "", "", TRUE, "")

ExtractPages == {GoodPage, EmptyPage, DownPage}

ExtractUrls == {UrlA, UrlB}

\* a tick is five minutes and a call is bounded by its timeouts (30 s, 10 s
\* and 2 s), so the clock advances between calls
ExtractTick == InFlight = {} /\ Tick

NextExtract ==
    \/ \E c \in CallIds, url \in ExtractUrls : Begin(c, url)
    \/ \E c \in CallIds : AfterWait(c)
    \/ \E c \in CallIds : CreationSettled(c)
    \/ \E c \in CallIds : NewPage(c)
    \/ \E c \in CallIds, pg \in ExtractPages : Navigate(c, pg)
    \/ \E c \in CallIds : ClosePage(c)
    \/ \E k \in CreationIds, ok \in BOOLEAN : Launch(k, ok)
    \/ \E k \in CreationIds : Install(k)
    \/ \E b \in CreationIds : Disconnect(b)
    \/ \E c \in CallIds, pg \in ExtractPages : FinishDirect(c, pg)
    \/ ExtractTick

SpecExtract == InitExtract /\ [][NextExtract]_vars

(***************************************************************************)
(* Claims about the message cache.                                         *)
(***************************************************************************)
\* C1: a video's message cache never holds more than MAX_CACHED_MESSAGES
\* messages (and, past that many merged messages, holds the latest ones).
C1_CacheNeverExceedsCap ==
    \A v \in DOMAIN messageCache :
        Len(messageCache[v].messages) <= MAX_CACHED_MESSAGES

\* C2: no two messages of one video's cache have the same id.
C2_CacheIdsUnique ==
    \A v \in DOMAIN messageCache :
        \A i, j \in 1..Len(messageCache[v].messages) :
            messageCache[v].messages[i].id = messageCache[v].messages[j].id => i = j

\* the stages a URL of the last call was logged at
StagesOf(c, url) == {c.resp.log[k].stage : k \in {j \in 1..Len(c.resp.log) : c.resp.log[j].url = url}}

FailureStages == {"extract-failed", "poll-failed", "parse-failed"}

\* the last call was a getLiveChat over one usable and one malformed URL, and
\* the usable one was served without a failure
OneValidOneMalformed(c) ==
    /\ c.op = "getLiveChat"
    /\ c.urls \in {<<UrlA, UrlBad>>, <<UrlBad, UrlB>>}
    /\ \E u \in {UrlA, UrlB} :
          /\ StagesOf(c, u) \cap {"ok", "cached"} # {}
          /\ StagesOf(c, u) \cap FailureStages = {}

\* C9: a getLiveChat call with one valid and one malformed URL returns
\* messages of the valid URL only and exactly one errors entry, which is about
\* the malformed URL; the call does not reject and the malformed URL is never
\* fetched.
C9_MalformedUrlReported ==
    OneValidOneMalformed(last) =>
        /\ ~last.resp.rejected
        /\ Len(last.resp.errors) = 1
        /\ last.resp.errors[1].url = UrlBad
        /\ StagesOf(last, UrlBad) \subseteq {"invalid"}
        /\ \A k \in 1..Len(last.resp.messages) :
              last.resp.messages[k].src \in {"A", "B"}

\* a step that is one handler call
CallStep == now' = now /\ last'.op # "none"

\* what the handler of the step returns for the URL at position i alone, from
\* the same caches and the same upstream answers
Solo(c, i, pageSize) ==
    LET u == <<c.urls[i]>>
        pg == <<c.pages[i]>>
        pl == <<c.polls[i]>>
    IN IF c.op = "getVideoMetadata"
       THEN getVideoMetadataTs(directTokenCache, channelNameCache, now, u, pg, pl,
                               IF MetaTasks(u) = {} THEN <<>> ELSE <<1>>).resp
       ELSE IF variant = "incremental"
       THEN getLiveChatTs(messageCache, tokenCache, now, u, pageSize, c.after,
                          c.messageIds, pg, pl,
                          IF FreshTasks(messageCache, u, now) = {} THEN <<>> ELSE <<1>>).resp
       ELSE getLiveChatJs(messageCache, tokenCache, now, u, pageSize, c.after,
                          c.messageIds, pg, pl).resp

\* a page size no response of the model reaches
NoLimit == 100

\* the response of the call is the combination of what each URL yields alone
Combined(c) ==
    LET n == Len(c.urls)
    IN IF c.op = "getVideoMetadata"
       THEN c.resp.metadata = Flat([i \in 1..n |-> Solo(c, i, 0).metadata])
       ELSE IF variant = "incremental"
       THEN c.resp.messages =
                PageTs(Flat([i \in 1..n |-> Solo(c, i, NoLimit).messages]),
                       c.pageSize, c.after, c.messageIds).messages
       ELSE c.resp.messages =
                SortByTs(Flat([i \in 1..n |-> Solo(c, i, c.pageSize).messages]))

\* the URLs of the call that have an errors entry
Reported(c) == {c.resp.errors[k].url : k \in 1..Len(c.resp.errors)}

\* the URLs of the call logged at one of the stages
LoggedAt(c, stages) ==
    {c.resp.log[k].url : k \in {j \in 1..Len(c.resp.log) : c.resp.log[j].stage \in stages}}

\* the failures the build reports in errors: in the snapshot getLiveChat a
\* failed poll and an unparseable item yield fewer messages and no entry
ReportedStages ==
    IF variant = "snapshot" THEN {"extract-failed"} ELSE FailureStages

HasFreshEntry(url) ==
    url \in DOMAIN tokenCache /\ now - tokenCache[url].timestamp < TOKEN_CACHE_EXPIRATION

\* the step is the start of call c
Begins(c) == calls[c].pc = "idle" /\ calls'[c].pc # "idle"

\* C3 (amended): a call of extractYouTubeTokens that starts while the token
\* cache holds an entry for its URL younger than the TTL returns that entry
\* at once, with no page fetch, no browser action and no cache write.
C3_CacheHitIsSideEffectFree ==
    [][\A c \in CallIds :
          (Begins(c) /\ HasFreshEntry(calls'[c].url)) =>
              /\ calls'[c].pc = "done"
              /\ calls'[c].out = "hit"
              /\ calls'[c].cont = tokenCache[calls'[c].url].cont
              /\ calls'[c].age = now - tokenCache[calls'[c].url].timestamp
              /\ tokenCache' = tokenCache
              /\ lastFetch' = lastFetch
              /\ UNCHANGED <<browserInstance, browserCreationInProgress,
                             browserCreationPromise, activePages, browsers, creations,
                             tabs>>]_vars

\* the step is a page fetch of a call for the URL
Fetches(url) ==
    \E c \in CallIds :
        /\ calls[c].url = url
        /\ calls[c].pc \in {"navigating", "fetching"}
        /\ calls'[c].pc # calls[c].pc
        /\ calls[c].pc = "navigating" => tabs[calls[c].page].st = "open"

\* C3 (as stated): calls for one URL within the TTL issue one page fetch: no
\* page of a URL is fetched again before the TTL has passed since its last
\* fetch.
C3_OneFetchPerTtl ==
    [][\A url \in DOMAIN lastFetch :
          Fetches(url) => now - lastFetch[url] >= TOKEN_CACHE_EXPIRATION]_vars

\* a call fetched the page and a later call for the same URL was served the
\* cached token set
C3_Witness ==
    \E c1, c2 \in CallIds :
        /\ calls[c1].pc = "done" /\ calls[c1].out = "fresh"
        /\ calls[c2].pc = "done" /\ calls[c2].out = "hit"
        /\ calls[c1].url = calls[c2].url

\* C4: the token cache never holds a token set with an empty continuation.
C4_NoEmptyContinuationCached ==
    \A url \in DOMAIN tokenCache : tokenCache[url].cont # ""

\* C5: no call returns a cached token set whose age is the TTL or more.
C5_NoStaleTokensReturned ==
    \A c \in CallIds :
        (calls[c].pc = "done" /\ calls[c].out \in {"hit", "waited"}) =>
            calls[c].age < TOKEN_CACHE_EXPIRATION

\* the creations and the browser processes that are alive
CreationsInFlight == {k \in CreationIds : creations[k].pc \in {"launching", "closingBlank"}}

BrowsersAlive == {b \in CreationIds : browsers[b] \in {"launched", "installed"}}

\* C6: at most one browser creation is in flight and at most one browser
\* process is alive; while a creation is in flight every caller waits for
\* that creation, and a caller is handed the browser of the creation it
\* waited for.
C6_SingleCreationInFlight ==
    /\ Cardinality(CreationsInFlight) <= 1
    /\ Cardinality(BrowsersAlive) <= 1
    /\ CreationsInFlight # {} =>
          /\ browserCreationInProgress
          /\ browserCreationPromise \in CreationsInFlight
          /\ \E c \in CallIds : calls[c].pc = "awaitCreation"
                                /\ calls[c].creation \in CreationsInFlight
    /\ \A c \in CallIds :
          (calls[c].pc = "gotBrowser" /\ calls[c].creation # 0) =>
              /\ calls[c].browser = calls[c].creation
              /\ creations[calls[c].creation].pc = "ok"

\* two callers wait for one creation in flight
C6_Witness ==
    \E c1, c2 \in CallIds :
        /\ c1 # c2
        /\ calls[c1].pc = "awaitCreation" /\ calls[c2].pc = "awaitCreation"
        /\ calls[c1].creation = calls[c2].creation
        /\ calls[c1].creation \in CreationsInFlight

\* C7: a call that has returned or thrown has left no tab of its own open,
\* and when no call is in flight activePages is empty.
C7_TabsClosedOnReturn ==
    /\ \A c \in CallIds : calls[c].pc = "done" => tabs[c].st # "open"
    /\ InFlight = {} => activePages = Empty

\* the step is the disconnect of the shared browser
SharedBrowserDisconnects ==
    /\ browserInstance # 0
    /\ browsers[browserInstance] = "installed"
    /\ browsers'[browserInstance] = "gone"

\* C8: when the shared browser disconnects, the handle, the creation lock,
\* the creation promise and the tab map are clear afterwards, so the next
\* getBrowser starts a creation.
C8_DisconnectResetsSharedState ==
    [][SharedBrowserDisconnects =>
          /\ browserInstance' = 0
          /\ browserCreationInProgress' = FALSE
          /\ browserCreationPromise' = 0
          /\ activePages' = Empty]_vars

\* the shared browser has disconnected with a tab of a call open in it, and
\* the shared state is clear
C8_Witness ==
    \E b \in CreationIds :
        /\ browsers[b] = "gone"
        /\ creations[b].pc = "ok"
        /\ \E c \in CallIds : tabs[c].browser = b /\ calls[c].pc = "navigating"
        /\ browserInstance = 0
        /\ ~browserCreationInProgress
        /\ activePages = Empty

(***************************************************************************)
(* SpecPage: getLiveChat calls of both builds with a page size smaller     *)
(* than what the upstream returns, an after cursor and a set of message    *)
(* ids the client already has.  The upstream lists a video's messages      *)
(* oldest first; the messages of the two videos interleave in time.        *)
(***************************************************************************)
MaxPageTime == 2    \* the clock of SpecPage stops here

\* the pageSize of a request: below and at what a video's poll can return
PageSizes == {1, 3}

\* the after cursor of a request: none (0), or the time of the middle message
PageAfters == {0, 2}

ItemsA == <<RawItem("text", 1, 1), RawItem("text", 2, 2), RawItem("text", 3, 3)>>

ItemsB == <<RawItem("text", 4, 1), RawItem("text", 5, 3)>>

PageOutcomes(url, i) ==
    IF url = UrlA
    THEN {Outcome(GoodPage, Poll("ok", SliceFirst(ItemsA, n), "c1")) : n \in {2, 3}}
    ELSE {Outcome(GoodPage, Poll("ok", ItemsB, "c1"))}

PageUrlLists == {<<UrlA>>, <<UrlA, UrlB>>}

\* the messageIds of a request: none, or an id of each video
PageIdSets == {{}, {2, 4}}

PageTick == now < MaxPageTime /\ Tick

NextPage ==
    \/ \E urls \in PageUrlLists, pageSize \in PageSizes, after \in PageAfters,
          messageIds \in PageIdSets :
         \E os \in OutcomeSeqs(urls, PageOutcomes),
            ord \in Perms(FreshTasks(messageCache, urls, now)) :
            GetLiveChatTs(urls, pageSize, after, messageIds, PagesOf(os), PollsOf(os), ord)
    \/ \E urls \in PageUrlLists, pageSize \in PageSizes, after \in PageAfters,
          messageIds \in PageIdSets :
         \E os \in OutcomeSeqs(urls, PageOutcomes) :
            GetLiveChatJs(urls, pageSize, after, messageIds, PagesOf(os), PollsOf(os))
    \/ PageTick

SpecPage == InitChat /\ [][NextPage]_vars

(***************************************************************************)
(* Claims about the page of a getLiveChat response.                        *)
(***************************************************************************)
\* the last call was a getLiveChat for the one URL url, with no cursor and no
\* messageIds, that polled the upstream
FreshSingle(c, url) ==
    /\ c.op = "getLiveChat"
    /\ c.urls = <<url>>
    /\ c.after = 0
    /\ c.messageIds = {}
    /\ "ok" \in StagesOf(c, url)

\* C11: in the snapshot build, a getLiveChat for one valid URL with page size
\* p whose poll returns n > p raw text messages returns exactly the p most
\* recent of them (the tail of the upstream's list), with no errors and a
\* timestamp.
C11_PollReturnsMostRecent ==
    (/\ variant = "snapshot"
     /\ FreshSingle(last, UrlA)
     /\ Len(last.polls[1].items) > last.pageSize)
    => /\ last.resp.messages = ToMsgs(SliceLast(last.polls[1].items, last.pageSize), "A")
       /\ last.resp.errors = <<>>
       /\ last.resp.timestamp \in Nat

\* the response of the call c is the last page of the messages its URLs yield
LastPage(c) ==
    LET n == Len(c.urls)
        all == SortByTs(Flat([i \in 1..n |-> Solo(c, i, c.pageSize).messages]))
    IN /\ Len(c.resp.messages) <= c.pageSize
       /\ Len(all) > c.pageSize => c.resp.messages = SliceLast(all, c.pageSize)

\* C12: in the snapshot build the messages of a getLiveChat response are at
\* most pageSize in total over all the requested videos, and when the
\* messages the handler collected from the videos (each video's filtered
\* messages) together exceed pageSize the response holds the pageSize most
\* recent of them.
C12_SnapshotPageIsGlobal ==
    [][(CallStep /\ variant = "snapshot" /\ last'.op = "getLiveChat") =>
          LastPage(last')]_vars

\* the messages of the step's call that pass its filters, over all its URLs:
\* what each URL yields alone when the page size cuts nothing
RECURSIVE FilteredUpTo(_, _)
FilteredUpTo(c, n) ==
    IF n = 0 THEN <<>> ELSE FilteredUpTo(c, n - 1) \o Solo(c, n, NoLimit).messages

FilteredAll(c) == FilteredUpTo(c, Len(c.urls))

\* the message x is one of the sequence s
In(x, s) == \E i \in 1..Len(s) : s[i] = x

\* the response of the call c is the first page of its filtered messages
FirstPage(c) ==
    LET all == FilteredAll(c)
        r == c.resp
        m == r.messages
    IN /\ r.hasMore = (Len(all) > c.pageSize)
       /\ Len(m) = IF Len(all) > c.pageSize THEN c.pageSize ELSE Len(all)
       /\ \A i \in 1..Len(m) : In(m[i], all)
       /\ \A i, j \in 1..Len(m) : i < j => m[i].ts <= m[j].ts
       /\ \A j \in 1..Len(all) :
             ~In(all[j], m) => \A i \in 1..Len(m) : m[i].ts <= all[j].ts
       /\ r.lastTimestamp = IF Len(m) = 0 THEN 0 ELSE m[Len(m)].ts

\* C13: in the incremental build getLiveChat returns hasMore = true exactly
\* when the filtered messages of all the videos are more than pageSize;
\* messages holds the first pageSize of them in ascending timestamp order
\* (all of them when they are not more than pageSize); lastTimestamp is the
\* timestamp of the last returned message, or null (0) when none is returned.
C13_IncrementalPage ==
    [][(CallStep /\ variant = "incremental" /\ last'.op = "getLiveChat") =>
          FirstPage(last')]_vars

\* a call over two videos whose filtered messages exceeded the page size was
\* answered with the earliest of them and hasMore
C13_Witness ==
    /\ variant = "incremental"
    /\ last.op = "getLiveChat"
    /\ last.urls = <<UrlA, UrlB>>
    /\ last.pageSize = 1
    /\ last.after = 2
    /\ last.resp.hasMore
    /\ Ids(last.resp.messages) = {3}
    /\ last.resp.lastTimestamp = 3
    /\ last.resp.lastTimestamp = last.resp.messages[1].ts

\* what the handler of the step returns for the same request without the
\* after cursor, from the same caches and the same upstream answers
WithoutCursor(c) ==
    IF variant = "incremental"
    THEN getLiveChatTs(messageCache, tokenCache, now, c.urls, c.pageSize, 0, c.messageIds,
                       c.pages, c.polls,
                       CHOOSE o \in Perms(FreshTasks(messageCache, c.urls, now)) : TRUE).resp
    ELSE getLiveChatJs(messageCache, tokenCache, now, c.urls, c.pageSize, 0, c.messageIds,
                       c.pages, c.polls).resp

\* the messages of s later than the cursor
LaterThan(s, after) ==
    LET After(m) == m.ts > after
    IN SelectSeq(s, After)

\* the response of the call c holds the messages later than its cursor
CursorApplied(c) ==
    LET m == c.resp.messages
        m0 == WithoutCursor(c).messages
    IN /\ \A i \in 1..Len(m) : m[i].ts > c.after
       /\ \A j \in 1..Len(m0) : m0[j].ts > c.after => In(m0[j], m)
       /\ Len(m0) < c.pageSize => m = LaterThan(m0, c.after)

\* C14: a getLiveChat call with an after cursor returns the messages it would
\* return without the cursor whose timestamp is strictly later than the
\* cursor: none at or before the cursor is returned, none later is left out,
\* and when the page size cuts nothing the result is exactly those messages --
\* for cached and for freshly polled videos, in both builds.
C14_AfterCursorIsStrict ==
    [][(CallStep /\ last'.op = "getLiveChat" /\ last'.after # 0) =>
          CursorApplied(last')]_vars

\* a video with three cached messages of increasing time, asked for with the
\* second one's time as the cursor, yields exactly the third
C14_WitnessCached ==
    /\ last.op = "getLiveChat"
    /\ last.urls = <<UrlA>>
    /\ last.pageSize = 3
    /\ last.after = 2
    /\ last.messageIds = {}
    /\ StagesOf(last, UrlA) = {"cached"}
    /\ variant = "incremental" => Ids(messageCache["A"].messages) = {1, 2, 3}
    /\ variant = "snapshot" => Ids(messageCache["A"].messages) = {2, 3}
    /\ last.resp.messages = <<Msg(3, 3, "A")>>

\* C15: no message of a getLiveChat response has an id of the request's
\* messageIds, whichever video it is from and whether it was served from the
\* message cache or freshly polled.
C15_NoExcludedIdReturned ==
    last.op = "getLiveChat" => Ids(last.resp.messages) \cap last.messageIds = {}

\* a call over a cached and a freshly polled video, both holding an excluded
\* id, returned the other messages of both videos
C15_Witness ==
    /\ last.op = "getLiveChat"
    /\ last.urls = <<UrlA, UrlB>>
    /\ last.messageIds = {2, 4}
    /\ last.pageSize = 3
    /\ last.after = 0
    /\ StagesOf(last, UrlA) = {"cached"}
    /\ StagesOf(last, UrlB) = {"ok"}
    /\ 2 \in Ids(messageCache["A"].messages)
    /\ 4 \in Ids(last.polls[2].items)
    /\ {3, 5} \subseteq Ids(last.resp.messages)

(***************************************************************************)
(* The normalizer in detail.  The chat pipeline above carries a raw item   *)
(* as its kind, id and time; here the content of an item is spelled out:   *)
(*   shape   "text" (a liveChatTextMessageRenderer), "other" (an action    *)
(*           or item of another type), "null" (the entry itself is null)   *)
(*           or "badruns" (a text renderer whose message.runs is not an    *)
(*           array);                                                       *)
(*   text    the characters of its text runs;                              *)
(*   emoji   "none", "thumb" (an emoji run with an image thumbnail) or     *)
(*           "bare" (an emoji run without one);                            *)
(*   badges  the role each author badge indicates, in the item's order     *)
(*           ("verified" indicates none of the three roles).               *)
(* A formatted message keeps the id, the text, the number of emoji records *)
(* and the user type.                                                      *)
(***************************************************************************)
Renderer(shape, text, emoji, badges) ==
    [shape |-> shape, id |-> 0, text |-> text, emoji |-> emoji, badges |-> badges]

ChatMessage(id, message, emojis, userType) ==
    [id |-> id, message |-> message, emojis |-> emojis, userType |-> userType]

\* String.prototype.trim on the characters of a text
Trim(s) ==
    LET NotBlank(c) == c # " "
    IN SelectSeq(s, NotBlank)

\* the placeholder an emoji run adds to the text: its emojiId
EmojiPlaceholder(raw) == IF raw.emoji = "none" THEN <<>> ELSE <<"E">>

\* the badge loop of formatters.ts: owner ends the loop; a moderator or a
\* member badge sets the type and the loop goes on
RECURSIVE BadgeLoopTs(_, _)
BadgeLoopTs(badges, userType) ==
    IF badges = <<>> THEN userType
    ELSE IF Head(badges) = "owner" THEN "owner"
    ELSE IF Head(badges) = "moderator" THEN BadgeLoopTs(Tail(badges), "moderator")
    ELSE IF Head(badges) = "member" THEN BadgeLoopTs(Tail(badges), "member")
    ELSE BadgeLoopTs(Tail(badges), userType)

\* the badge loop of formatters.js: every role badge sets the type
RECURSIVE BadgeLoopJs(_, _)
BadgeLoopJs(badges, userType) ==
    IF badges = <<>> THEN userType
    ELSE IF Head(badges) \in {"moderator", "owner", "member"}
    THEN BadgeLoopJs(Tail(badges), Head(badges))
    ELSE BadgeLoopJs(Tail(badges), userType)

Item(threw, out) == [threw |-> threw, out |-> out]

\* the body of the loop of formatChatMessages of formatters.ts for one action
FormatActionTs(raw) ==
    LET messageText == raw.text \o EmojiPlaceholder(raw)
        emojis == IF raw.emoji = "thumb" THEN 1 ELSE 0
    IN IF raw.shape = "null" THEN Item(TRUE, <<>>)       \* null.addChatItemAction
       ELSE IF raw.shape = "other" THEN Item(FALSE, <<>>)
       ELSE IF raw.shape = "badruns" THEN Item(TRUE, <<>>)  \* runs.forEach
       ELSE IF Trim(messageText) = <<>> /\ emojis = 0 THEN Item(FALSE, <<>>)
       ELSE Item(FALSE, <<ChatMessage(raw.id, messageText, emojis,
                                      BadgeLoopTs(raw.badges, "regular"))>>)

\* formatSingleMessage of formatters.js: null for an entry it cannot read;
\* extractMessageContent, extractEmojis and extractAuthorInfo each catch
\* their own failure and return what they have so far
formatSingleMessage(raw) ==
    IF raw.shape \in {"null", "other"} THEN Item(FALSE, <<>>)
    ELSE IF raw.shape = "badruns"
    THEN Item(FALSE, <<ChatMessage(raw.id, <<>>, 0, BadgeLoopJs(raw.badges, "regular"))>>)
    ELSE Item(FALSE, <<ChatMessage(raw.id, raw.text \o EmojiPlaceholder(raw),
                                   IF raw.emoji = "thumb" THEN 1 ELSE 0,
                                   BadgeLoopJs(raw.badges, "regular"))>>)

FormatResult(threw, messages) == [threw |-> threw, messages |-> messages]

\* formatChatMessages of formatters.ts over a batch: a throw ends the call
RECURSIVE FormatBatchTs(_)
FormatBatchTs(items) ==
    IF items = <<>> THEN FormatResult(FALSE, <<>>)
    ELSE LET rest == FormatBatchTs(SubSeq(items, 1, Len(items) - 1))
             one == FormatActionTs(items[Len(items)])
         IN IF rest.threw \/ one.threw THEN FormatResult(TRUE, <<>>)
            ELSE FormatResult(FALSE, rest.messages \o one.out)

\* formatChatMessages of formatters.js over a batch: each item in its own try
RECURSIVE FormatBatchJs(_)
FormatBatchJs(items) ==
    IF items = <<>> THEN FormatResult(FALSE, <<>>)
    ELSE FormatResult(FALSE, formatSingleMessage(Head(items)).out
                             \o FormatBatchJs(Tail(items)).messages)

FormatBatch(items) ==
    IF variant = "incremental" THEN FormatBatchTs(items) ELSE FormatBatchJs(items)

FormatCall(items, resp) == [op |-> "formatChatMessages", items |-> items, resp |-> resp]

\* one call of formatChatMessages
FormatChatMessages(items) ==
    /\ last = NoCall
    /\ last' = FormatCall(items, FormatBatch(items))
    /\ UNCHANGED <<variant, now, chatVars, metaVars, extractVars>>

(***************************************************************************)
(* SpecFormat: formatChatMessages of either build applied to one batch.    *)
(* The batches are the sequences of up to MaxBatch raw items; the items    *)
(* cover every text and emoji combination, every list of up to two badges, *)
(* an item of another type and the two malformed shapes.                   *)
(***************************************************************************)
MaxBatch == 2

Texts == {<<>>, <<" ">>, <<"h">>}

Badges == {"owner", "moderator", "member", "verified"}

BadgeLists == {<<>>} \cup {<<a>> : a \in Badges} \cup {<<a, b>> : a, b \in Badges}

FormatItems ==
    {Renderer("text", t, e, <<>>) : t \in Texts, e \in {"none", "thumb", "bare"}}
    \cup {Renderer("text", <<"h">>, "none", bs) : bs \in BadgeLists}
    \cup {Renderer(s, <<>>, "none", <<>>) : s \in {"other", "null", "badruns"}}

\* the batches: every item's id is its position
FormatBatches ==
    UNION {{[i \in 1..n |-> [b[i] EXCEPT !.id = i]] : b \in [1..n -> FormatItems]} :
              n \in 1..MaxBatch}

NextFormat == \E items \in FormatBatches : FormatChatMessages(items)

SpecFormat == InitChat /\ [][NextFormat]_vars

(***************************************************************************)
(* Claims about the normalizer.                                            *)
(***************************************************************************)
\* the user type the badge priority owner > moderator > member gives
Priority(badges) ==
    LET roles == {badges[i] : i \in 1..Len(badges)}
    IN IF "owner" \in roles THEN "owner"
       ELSE IF "moderator" \in roles THEN "moderator"
       ELSE IF "member" \in roles THEN "member"
       ELSE "regular"

\* the last call formatted exactly one text message
FormattedOne(c) ==
    /\ c.op = "formatChatMessages"
    /\ Len(c.items) = 1
    /\ c.items[1].shape = "text"
    /\ Len(c.resp.messages) = 1

\* C16: the user type of a formatted message is owner when any badge of its
\* author indicates owner, whatever the order of the badges; otherwise
\* moderator when any indicates moderator; otherwise member when any
\* indicates member; otherwise regular.
C16_BadgePriority ==
    FormattedOne(last) => last.resp.messages[1].userType = Priority(last.items[1].badges)

\* the item is a text message with no text left after trimming and no emoji
\* record
EmptyItem(raw) ==
    /\ raw.shape = "text"
    /\ Trim(raw.text \o EmojiPlaceholder(raw)) = <<>>
    /\ raw.emoji # "thumb"

\* the ids of the items of s that satisfy none / one of the tests
IdsWhere(s, Test(_)) == {s[i].id : i \in {j \in 1..Len(s) : Test(s[j])}}

\* C17: formatChatMessages returns no message with an empty text and no
\* emojis: of a batch of well-formed items it returns exactly the text
\* messages that have some text or an emoji record.
C17_EmptyMessagesDropped ==
    (/\ last.op = "formatChatMessages"
     /\ \A i \in 1..Len(last.items) : last.items[i].shape \in {"text", "other"})
    => LET Kept(raw) == raw.shape = "text" /\ ~EmptyItem(raw)
       IN /\ ~last.resp.threw
          /\ \A k \in 1..Len(last.resp.messages) :
                ~(last.resp.messages[k].message = <<>> /\ last.resp.messages[k].emojis = 0)
          /\ Ids(last.resp.messages) = IdsWhere(last.items, Kept)

\* the items of s that are not malformed
RECURSIVE WellFormed(_)
WellFormed(s) ==
    IF s = <<>> THEN <<>>
    ELSE (IF Head(s).shape \in {"null", "badruns"} THEN <<>> ELSE <<Head(s)>>)
         \o WellFormed(Tail(s))

\* C18: formatChatMessages does not throw because of a malformed item: the
\* item is skipped and the messages of the well-formed items of the batch
\* are returned in their order -- the result is that of the batch without
\* its malformed items.
C18_MalformedItemSkipped ==
    last.op = "formatChatMessages" =>
        /\ ~last.resp.threw
        /\ last.resp.messages = FormatBatch(WellFormed(last.items)).messages

(***************************************************************************)
(* getVideoMetadata of api/videoMetadata.js (the snapshot build): a        *)
(* sequential loop.  Its one metadata request is the player endpoint; the  *)
(* upstream's answer is kind "fail", or "ok" with a primary body of shape  *)
(* "player" when the response has videoDetails.  It shares the token cache *)
(* of directTokenExtractor.js with the snapshot getLiveChat.               *)
(***************************************************************************)
\* fetchVideoMetadata of directTokenExtractor.js: never throws; null (ok =
\* FALSE) on a failed request and on a response without videoDetails
fetchVideoMetadataJs(up) ==
    IF up.kind = "ok" /\ up.primary.shape = "player"
    THEN [ok |-> TRUE, data |-> up.primary] ELSE [ok |-> FALSE, data |-> NoBody]

\* parseMetadata of videoMetadata.js: the record and the channel-name cache it
\* leaves.  The like count is never read; a missing title becomes
\* "Video <id>".
parseMetadataJs(data, videoUrl, videoId, extractedChannelName, cnc, t) ==
    LET cached == /\ videoId \in DOMAIN cnc
                  /\ t - cnc[videoId].timestamp < CHANNEL_CACHE_EXPIRATION
        name0 == IF cached THEN cnc[videoId].name ELSE extractedChannelName
        cnc1 == IF ~cached /\ extractedChannelName # ""
                THEN Put(cnc, videoId, [name |-> extractedChannelName, timestamp |-> t])
                ELSE cnc
        f == IF data.shape = "player" THEN data.f ELSE NoBody.f
        fromAuthor == f.channelName # "" /\ name0 = ""
    IN [md |-> Metadata(videoId, videoUrl,
                        Fields(IF f.title = "" THEN "Video" ELSE f.title, f.viewCount, 0,
                               IF fromAuthor THEN f.channelName ELSE name0, f.isLive),
                        ""),
        cnc |-> IF fromAuthor
                THEN Put(cnc1, videoId, [name |-> f.channelName, timestamp |-> t])
                ELSE cnc1]

\* one iteration of "for (const url of urls)"
JsMetaStep(st, url, t, pg, up) ==
    LET videoId == extractVideoId(url)
        ex == ExtractJs(st.tc, url, t, pg)
        fv == fetchVideoMetadataJs(up)
        direct == parseMetadataJs(fv.data, url, videoId, "", st.cnc, t)
        combined == parseMetadataJs(fv.data, url, videoId, ex.tok.rawHtml, st.cnc, t)
        st1 == [st EXCEPT !.tc = ex.tc]
    IN IF ~isValidYouTubeUrlDirect(url)
       THEN JsSkip(st, "invalid-url", url, "invalid")
       ELSE IF ~ex.ok /\ ~fv.ok
       THEN JsSkip(st1, "no-metadata", url, "extract-failed")
       ELSE IF ~ex.ok
       THEN [st1 EXCEPT !.cnc = direct.cnc, !.all = Append(@, direct.md),
                        !.log = Append(@, Log(url, "ok"))]
       ELSE [st1 EXCEPT !.cnc = combined.cnc, !.all = Append(@, combined.md),
                        !.log = @ \o (IF fv.ok THEN <<>> ELSE <<Log(url, "poll-failed")>>)
                                  \o <<Log(url, "ok")>>]

RECURSIVE JsMetaLoop(_, _, _, _, _, _)
JsMetaLoop(st, i, urls, t, pages, ups) ==
    IF i > Len(urls) THEN st
    ELSE JsMetaLoop(JsMetaStep(st, urls[i], t, pages[i], ups[i]), i + 1, urls, t, pages, ups)

getVideoMetadataJs(tc, cnc, t, urls, pages, ups) ==
    LET st == JsMetaLoop([tc |-> tc, cnc |-> cnc, errs |-> <<>>, all |-> <<>>,
                          log |-> <<>>, rejected |-> FALSE],
                         1, urls, t, pages, ups)
    IN [tc |-> st.tc, cnc |-> st.cnc, resp |-> MetaResponse(st.all, st.errs, st)]

\* one call of getVideoMetadata of the snapshot build, start to return
GetVideoMetadataJs(urls, pages, ups) ==
    /\ variant = "snapshot"
    /\ LET r == getVideoMetadataJs(tokenCache, channelNameCache, now, urls, pages, ups)
       IN /\ tokenCache' = r.tc
          /\ channelNameCache' = r.cnc
          /\ last' = Call("getVideoMetadata", urls, 0, 0, {}, pages, ups, r.resp)
    /\ UNCHANGED <<variant, now, messageCache, directTokenCache, extractVars>>

(***************************************************************************)
(* SpecMeta: getVideoMetadata of both builds.  A request for one video     *)
(* meets every combination of fields the primary and the backup body can   *)
(* supply; a request over two URLs meets success and failure per URL.      *)
(***************************************************************************)
\* a page whose HTML names no channel, and the page of a video with no chat
PlainPage == Page(TRUE, "c0", "", "c0", TRUE, "")

NoChatPage == Page(TRUE, "", "", "", TRUE, "chan")

\* what the primary endpoint can supply: any of the title and the view count,
\* and none or all of the like count, the channel name and the live flag
PrimaryFields ==
    {Fields(t, v, x[1], x[2], x[3]) :
        t \in {"", "P"}, v \in {0, 5}, x \in {<<0, "", FALSE>>, <<1, "pc", TRUE>>}}

BackupFields ==
    {NoBody.f, Fields("B", 7, 2, "bc", TRUE), Fields("B", 0, 0, "", FALSE),
     Fields("", 7, 2, "", TRUE)}

PlayerBody == Body("player", Fields("P", 5, 0, "pc", TRUE))

\* the answers for a request over one video
RichOutcomes(url, i) ==
    {Outcome(pg, MetaUp("ok", Body("actions", p), Body("contents", b))) :
        pg \in {GoodPage, PlainPage}, p \in PrimaryFields, b \in BackupFields}
    \cup {Outcome(pg, up) : pg \in {GoodPage, NoChatPage, DownPage},
                            up \in {MetaUp("ok", PlayerBody, NoBody),
                                    MetaUp("fail", NoBody, NoBody)}}

\* the answers per URL for a request over two URLs
CoarseOutcomes(url, i) ==
    IF url.shape = "other" THEN {Outcome(DownPage, MetaUp("fail", NoBody, NoBody))}
    ELSE {Outcome(GoodPage, MetaUp("ok", Body("actions", Fields("P", 5, 1, "pc", TRUE)),
                                   Body("contents", Fields("B", 7, 2, "bc", TRUE)))),
          Outcome(GoodPage, MetaUp("ok", PlayerBody, NoBody)),
          Outcome(GoodPage, MetaUp("fail", NoBody, NoBody)),
          Outcome(DownPage, MetaUp("fail", NoBody, NoBody))}

MetaUrlLists == {<<UrlA, UrlB>>, <<UrlBad, UrlA>>}

MetaInputs ==
    {[urls |-> <<UrlA>>, os |-> os] : os \in OutcomeSeqs(<<UrlA>>, RichOutcomes)}
    \cup UNION {{[urls |-> urls, os |-> os] : os \in OutcomeSeqs(urls, CoarseOutcomes)} :
                   urls \in MetaUrlLists}

NextMeta ==
    \/ \E req \in MetaInputs :
         \E ord \in Perms(MetaTasks(req.urls)) :
            GetVideoMetadataTs(req.urls, PagesOf(req.os), PollsOf(req.os), ord)
    \/ \E req \in MetaInputs :
          GetVideoMetadataJs(req.urls, PagesOf(req.os), PollsOf(req.os))

SpecMeta == InitChat /\ [][NextMeta]_vars

(***************************************************************************)
(* Claims about getVideoMetadata.                                          *)
(***************************************************************************)
\* the positions of the call's URLs that are valid
ValidUrls(c) == {i \in 1..Len(c.urls) : isValidYouTubeUrlDirect(c.urls[i])}

\* the records of the call's response about the URL at position i
RecordsOf(c, i) ==
    {k \in 1..Len(c.resp.metadata) : c.resp.metadata[k].videoUrl = c.urls[i]}

\* C19: getVideoMetadata never rejects; for every valid URL of the request it
\* returns exactly one metadata record, whose viewCount and likeCount are
\* numbers; and when every fetch for the URL fails, that record has zero
\* counts and an error.
C19_OneRecordPerValidUrl ==
    last.op = "getVideoMetadata" =>
        /\ ~last.resp.rejected
        /\ Len(last.resp.metadata) = Cardinality(ValidUrls(last))
        /\ \A i \in ValidUrls(last) :
              /\ Cardinality(RecordsOf(last, i)) = 1
              /\ \A k \in RecordsOf(last, i) :
                    /\ last.resp.metadata[k].viewCount \in Nat
                    /\ last.resp.metadata[k].likeCount \in Nat
                    /\ (~last.pages[i].ok /\ last.polls[i].kind = "fail") =>
                          /\ last.resp.metadata[k].viewCount = 0
                          /\ last.resp.metadata[k].likeCount = 0
                          /\ last.resp.metadata[k].error # ""

\* the two parses of the step's call for its one URL, from the caches and the
\* upstream answers of the step
ParsesOf(c) ==
    LET url == c.urls[1]
        ex == ExtractTs(directTokenCache, url, now, c.pages[1])
        name == extractChannelNameFromHTML(ex.tok.rawHtml)
        p == parseMetadataTs(c.polls[1].primary, url, extractVideoId(url), "primary",
                             name, channelNameCache, now)
        b == parseMetadataTs(c.polls[1].backup, url, extractVideoId(url), "backup",
                             name, p.cnc, now)
    IN [primary |-> p.md, backup |-> b.md]

\* the value of a field after the merge: the primary's when the primary
\* supplied it, otherwise the backup's
Preferred(primary, backup, default) == IF primary # default THEN primary ELSE backup

\* the call is for one video and parsed what it fetched
ParsedOne(c) ==
    /\ c.op = "getVideoMetadata"
    /\ c.urls = <<UrlA>>
    /\ StagesOf(c, UrlA) = {"ok"}

\* the record of the call is the merge of its two parses
MergedByField(c) ==
    LET p == ParsesOf(c).primary
        b == ParsesOf(c).backup
        r == c.resp.metadata[1]
    IN (p.title = "" \/ p.viewCount = 0) =>
          /\ r.title = Preferred(p.title, b.title, "")
          /\ r.viewCount = Preferred(p.viewCount, b.viewCount, 0)
          /\ r.likeCount = Preferred(p.likeCount, b.likeCount, 0)
          /\ r.channelName = Preferred(p.channelName, b.channelName, "")
          /\ r.isLive = Preferred(p.isLive, b.isLive, FALSE)

\* C20: when getVideoMetadata of the incremental build merges the primary and
\* the backup parse (the primary parse has no title or a zero view count),
\* each of title, viewCount, likeCount, channelName and isLive that the
\* primary parse supplied keeps the primary's value, and each one still at
\* its default takes the backup's value when the backup supplies it.
C20_MergePrefersPrimary ==
    [][(CallStep /\ variant = "incremental" /\ ParsedOne(last')) =>
          MergedByField(last')]_vars

\* a merge kept the primary's title over the backup's and filled the view
\* count, the like count, the channel name and the live flag from the backup
C20_Witness ==
    /\ variant = "incremental"
    /\ ParsedOne(last)
    /\ last.pages[1] = PlainPage
    /\ last.polls[1].primary.f = Fields("P", 0, 0, "", FALSE)
    /\ last.polls[1].backup.f = Fields("B", 7, 2, "bc", TRUE)
    /\ last.resp.metadata[1].title = "P"
    /\ last.resp.metadata[1].viewCount = 7
    /\ last.resp.metadata[1].likeCount = 2
    /\ last.resp.metadata[1].channelName = "bc"
    /\ last.resp.metadata[1].isLive

(***************************************************************************)
(* Claims about the channel-name cache.                                    *)
(***************************************************************************)
\* the video ids with a channel-name cache entry younger than 24 hours
NamedVideos ==
    {v \in DOMAIN channelNameCache :
        now - channelNameCache[v].timestamp < CHANNEL_CACHE_EXPIRATION}

\* the records of the call that describe video v and report no failure
ResultsFor(c, v) ==
    {k \in 1..Len(c.resp.metadata) :
        c.resp.metadata[k].videoId = v /\ c.resp.metadata[k].error = ""}

\* C21: once a channel name is cached for a video id, every metadata result
\* for that video within the next 24 hours carries the cached name, whatever
\* name the endpoint response or the HTML of the call yields, and the cache
\* entry is neither replaced nor re-timestamped.
C21_CachedNameSticks ==
    [][(CallStep /\ last'.op = "getVideoMetadata") =>
          \A v \in NamedVideos :
              /\ v \in DOMAIN channelNameCache'
              /\ channelNameCache'[v] = channelNameCache[v]
              /\ \A k \in ResultsFor(last', v) :
                    last'.resp.metadata[k].channelName = channelNameCache[v].name]_vars

(***************************************************************************)
(* Claims about a failed chat poll.                                        *)
(***************************************************************************)
\* the upstream poll of the call for the URL at position i failed
PollFailed(c, i) ==
    /\ c.op = "getLiveChat"
    /\ i \in 1..Len(c.urls)
    /\ "poll-failed" \in StagesOf(c, c.urls[i])

\* the messages of the call's response that come from the URL at position i
MessagesOf(c, i) ==
    {k \in 1..Len(c.resp.messages) : c.resp.messages[k].src = extractVideoId(c.urls[i])}

\* the call went upstream for the URL at position i: it extracted tokens
\* and, with tokens, polled
WentUpstream(c, i) ==
    /\ StagesOf(c, c.urls[i]) # {}
    /\ StagesOf(c, c.urls[i]) \subseteq FailureStages \cup {"ok"}

\* what the next call owes to the failed polls of the previous one
PolledAgain(prev, next) ==
    \A i \in 1..Len(next.urls) :
        (\E j \in 1..Len(prev.urls) : prev.urls[j] = next.urls[i] /\ PollFailed(prev, j))
            => WentUpstream(next, i)

\* C22: a failed upstream chat poll is not fatal and is not remembered: the
\* getLiveChat call in which it happens resolves with no message of that
\* video, and the next getLiveChat call for the same video goes upstream
\* again instead of answering from what the failed poll left.
C22_FailedPollNotRemembered ==
    [][(CallStep /\ last'.op = "getLiveChat") =>
          /\ \A i \in 1..Len(last'.urls) :
                PollFailed(last', i) => ~last'.resp.rejected /\ MessagesOf(last', i) = {}
          /\ last.op = "getLiveChat" => PolledAgain(last, last')]_vars

(***************************************************************************)
(* extractVideoId on the text of the URL.  The run of a URL is the text    *)
(* that follows the prefix of its shape up to the first '#', '&', '?' or   *)
(* '/'; its i-th character is <<vid, i>>, so that a video id and a part of *)
(* a longer identifier are different values.  The empty sequence is null.  *)
(***************************************************************************)
IdRun(url) == [i \in 1..url.len |-> <<url.vid, i>>]

\* extractVideoId of directTokenExtractor.{js,ts} and liveChat.ts: group 7 is
\* the whole run after "youtu.be/", "v/", "embed/" or "watch?v="; the result
\* is the group when its length is 11
extractVideoIdDirect(url) ==
    IF url.shape \in {"watch", "youtu.be", "embed"} /\ Len(IdRun(url)) = 11
    THEN IdRun(url) ELSE <<>>

\* extractVideoId of scraping/puppeteer.ts: the group is the first 11
\* characters after "youtube.com/...v=", "youtube.com/embed/" or "youtu.be/",
\* and nothing is required of what follows them
extractVideoIdPup(url) ==
    IF url.shape \in {"watch", "youtu.be", "embed"} /\ Len(IdRun(url)) >= 11
    THEN SubSeq(IdRun(url), 1, 11) ELSE <<>>

IdCall(impl, url, resp) == [op |-> "extractVideoId", impl |-> impl, url |-> url, resp |-> resp]

\* one call of extractVideoId of the module impl
ExtractVideoId(impl, url) ==
    /\ last = NoCall
    /\ last' = IdCall(impl, url,
                      IF impl = "puppeteer" THEN extractVideoIdPup(url)
                      ELSE extractVideoIdDirect(url))
    /\ UNCHANGED <<variant, now, chatVars, metaVars, extractVars>>

MaxRun == 12        \* the longest run of id characters of an input URL

IdShapes == {"watch", "youtu.be", "live", "embed", "other"}

IdUrls == {Url(s, v, n) : s \in IdShapes, v \in {"A", "B"}, n \in 0..MaxRun}

NextIds ==
    \E impl \in {"direct", "puppeteer"}, url \in IdUrls : ExtractVideoId(impl, url)

SpecIds == InitChat /\ [][NextIds]_vars

\* the URL shapes the specification lists as supported
SupportedShapes == {"watch", "youtu.be", "live", "embed"}

\* C23: extractVideoId returns exactly the 11-character id for every
\* supported URL shape (watch?v=ID, youtu.be/ID, /live/ID, /embed/ID), and
\* none for every other string: never the first 11 characters of a longer
\* identifier.
C23_ExactIdOrNone ==
    last.op = "extractVideoId" =>
        IF last.url.shape \in SupportedShapes /\ last.url.len = 11
        THEN last.resp = IdRun(last.url)
        ELSE last.resp = <<>>

(***************************************************************************)
(* Claims about the cache of polled messages.                              *)
(***************************************************************************)
\* the video of the call's one URL has a cache entry the build still serves
\* or merges into
HasLiveEntry(c) ==
    /\ c.op = "getLiveChat"
    /\ c.urls = <<UrlA>>
    /\ "A" \in DOMAIN messageCache
    /\ IF variant = "incremental"
       THEN ~(now - messageCache["A"].lastFetched > CACHE_EXPIRATION)
       ELSE now - messageCache["A"].lastFetched < CACHE_EXPIRATION

\* the call polled the upstream for its one URL and the poll succeeded
PolledOk(c) == c.op = "getLiveChat" /\ "ok" \in StagesOf(c, c.urls[1])

\* the cache content the merge of the polled batch into the entry must give
MergedContent(c) ==
    LET old == messageCache["A"].messages
        polled == ToMsgs(c.polls[1].items, "A")
        NotCached(m) == \A k \in 1..Len(old) : old[k].id # m.id
        all == SortByTs(old \o SelectSeq(polled, NotCached))
    IN IF Len(all) > MAX_CACHED_MESSAGES
       THEN SubSeq(all, Len(all) - MAX_CACHED_MESSAGES + 1, Len(all))
       ELSE all

\* the entry of the video after the poll holds the merged content
CacheMerged(c) ==
    /\ "A" \in DOMAIN messageCache'
    /\ messageCache'["A"].messages = MergedContent(c)
    /\ Len(messageCache["A"].messages) + Len(ToMsgs(c.polls[1].items, "A"))
            <= MAX_CACHED_MESSAGES
         => \A k \in 1..Len(messageCache["A"].messages) :
               \E j \in 1..Len(messageCache'["A"].messages) :
                   messageCache'["A"].messages[j] = messageCache["A"].messages[k]

\* C24: on each successful poll of a video that already has a cache entry,
\* the new cache content is the previously cached messages plus the polled
\* messages whose id was not yet cached, sorted ascending by timestamp and
\* truncated from the oldest end; no cached message is lost otherwise.
C24_PollMergesIntoCache ==
    [][(CallStep /\ HasLiveEntry(last') /\ PolledOk(last')) => CacheMerged(last')]_vars

\* a poll that brought one new message was merged into an entry of two, and
\* the oldest of the three was cut
C24_Witness ==
    /\ variant = "incremental"
    /\ PolledOk(last)
    /\ last.polls[1].items = <<A3>>
    /\ "A" \in DOMAIN messageCache
    /\ messageCache["A"].messages = <<Msg(2, 2, "A"), Msg(3, 2, "A")>>
    /\ messageCache["A"].lastFetched = now

\* the continuations of the get_live_chat requests the call made for the URL
SentFor(c, url) ==
    {c.resp.sent[k].continuation : k \in {j \in 1..Len(c.resp.sent) : c.resp.sent[j].url = url}}

\* C25: after a successful poll of a video has stored the next continuation
\* in the video's message cache entry, the next upstream poll for that video
\* sends the stored continuation, not the one scraped from the video page.
C25_StoredContinuationReused ==
    [][(/\ CallStep
        /\ last'.op = "getLiveChat"
        /\ "A" \in DOMAIN messageCache
        /\ messageCache["A"].continuation # "")
          => SentFor(last', UrlA) \subseteq {messageCache["A"].continuation}]_vars

(***************************************************************************)
(* The next continuation of a chat poll.  The response lists continuation  *)
(* entries; an entry has any of the invalidation, timed and replay         *)
(* continuation fields, "" when absent.  "" is also the null result.       *)
(***************************************************************************)
ContinuationEntry(inval, timed, replay) ==
    [invalidationContinuationData |-> inval, timedContinuationData |-> timed,
     liveChatReplayContinuationData |-> replay]

\* a || b || c
FirstTruthy(a, b, c) == IF a # "" THEN a ELSE IF b # "" THEN b ELSE c

\* extractContinuationToken of utils/formatters.ts: every entry in turn, and
\* in each the three fields in turn
RECURSIVE extractContinuationToken(_)
extractContinuationToken(continuations) ==
    IF continuations = <<>> THEN ""
    ELSE LET e == Head(continuations)
             found == FirstTruthy(e.invalidationContinuationData, e.timedContinuationData,
                                  e.liveChatReplayContinuationData)
         IN IF found # "" THEN found ELSE extractContinuationToken(Tail(continuations))

\* fetchLiveChatMessages of directTokenExtractor.js: the first entry only
NextContinuationJs(continuations) ==
    IF continuations = <<>> THEN ""
    ELSE FirstTruthy(continuations[1].invalidationContinuationData,
                     continuations[1].timedContinuationData,
                     continuations[1].liveChatReplayContinuationData)

\* fetchLiveChatMessages of directTokenExtractor.ts: every entry in turn, and
\* in each the invalidation and the timed field
RECURSIVE NextContinuationTs(_)
NextContinuationTs(continuations) ==
    IF continuations = <<>> THEN ""
    ELSE LET e == Head(continuations)
             found == FirstTruthy(e.invalidationContinuationData, e.timedContinuationData, "")
         IN IF found # "" THEN found ELSE NextContinuationTs(Tail(continuations))

ContinuationCall(impl, continuations, resp) ==
    [op |-> "nextContinuation", impl |-> impl, continuations |-> continuations,
     resp |-> resp]

\* one poll's extraction of the next continuation, by the code of impl
NextContinuation(impl, continuations) ==
    /\ last = NoCall
    /\ last' = ContinuationCall(impl, continuations,
                   IF impl = "formatters.ts" THEN extractContinuationToken(continuations)
                   ELSE IF impl = "directTokenExtractor.js"
                   THEN NextContinuationJs(continuations)
                   ELSE NextContinuationTs(continuations))
    /\ UNCHANGED <<variant, now, chatVars, metaVars, extractVars>>

MaxEntries == 2     \* the most continuation entries of a response

\* the entries at position k of a response: each field absent or a token
\* that names the field and the position
TokenNames ==
    [inval |-> <<"i1", "i2", "i3", "i4">>, timed |-> <<"t1", "t2", "t3", "t4">>,
     replay |-> <<"r1", "r2", "r3", "r4">>]

EntriesAt(k) ==
    {ContinuationEntry(i, t, r) :
        i \in {"", TokenNames.inval[k]}, t \in {"", TokenNames.timed[k]},
        r \in {"", TokenNames.replay[k]}}

ContinuationLists ==
    UNION {{s \in [1..n -> UNION {EntriesAt(k) : k \in 1..n}] :
               \A k \in 1..n : s[k] \in EntriesAt(k)} : n \in 0..MaxEntries}

NextCont ==
    \E impl \in {"formatters.ts", "directTokenExtractor.js", "directTokenExtractor.ts"},
       continuations \in ContinuationLists : NextContinuation(impl, continuations)

SpecCont == InitChat /\ [][NextCont]_vars

\* the fields of the response in the order they are tried: entry by entry,
\* and in an entry invalidation, timed, replay
RECURSIVE FieldsInOrder(_)
FieldsInOrder(continuations) ==
    IF continuations = <<>> THEN <<>>
    ELSE <<Head(continuations).invalidationContinuationData,
           Head(continuations).timedContinuationData,
           Head(continuations).liveChatReplayContinuationData>>
         \o FieldsInOrder(Tail(continuations))

NonEmpty(x) == x # ""

\* C26: the next continuation a chat poll returns is the first non-empty of
\* the invalidation, timed and replay continuation fields of the response,
\* tried in that order; it is null only when no entry of the response has
\* any of the three.
C26_FirstNonEmptyContinuation ==
    last.op = "nextContinuation" =>
        LET present == SelectSeq(FieldsInOrder(last.continuations), NonEmpty)
        IN IF present = <<>> THEN last.resp = "" ELSE last.resp = present[1]

(***************************************************************************)
(* fetchVideoMetadata request by request.  An answer is the upstream's     *)
(* answer to one POST: kind "fail" (network error or non-2xx) or "ok" with *)
(* a body; the body of the primary endpoint has the shape "actions" (a     *)
(* non-empty action list), "empty" (actions: []) or "none" (no actions).   *)
(* The result lists the endpoints the call sent a request to, in order.    *)
(***************************************************************************)
Answer(kind, body) == [kind |-> kind, body |-> body]

FetchResult(ok, requests, source, data) ==
    [ok |-> ok, requests |-> requests, source |-> source, data |-> data]

\* fetchVideoMetadata of scraping/puppeteer.ts: the next endpoint inside the
\* catch of the updated_metadata attempt
fetchVideoMetadataPup(url, tok, primary, backup) ==
    IF ~tok.key \/ extractVideoIdPup(url) = <<>>
    THEN FetchResult(FALSE, <<>>, "", NoBody)
    ELSE IF primary.kind = "ok" /\ primary.body.shape = "actions"
    THEN FetchResult(TRUE, <<"updated_metadata">>, "primary", primary.body)
    ELSE IF backup.kind = "ok"
    THEN FetchResult(TRUE, <<"updated_metadata", "next">>, "backup", backup.body)
    ELSE FetchResult(FALSE, <<"updated_metadata", "next">>, "", NoBody)

\* fetchVideoMetadata of utils/directTokenExtractor.ts: the two POSTs one
\* after the other in one try
fetchVideoMetadataDirect(url, tok, primary, backup) ==
    IF ~tok.key \/ extractVideoIdDirect(url) = <<>>
    THEN FetchResult(FALSE, <<>>, "", NoBody)
    ELSE IF primary.kind = "fail"
    THEN FetchResult(FALSE, <<"updated_metadata">>, "", NoBody)
    ELSE IF backup.kind = "fail"
    THEN FetchResult(FALSE, <<"updated_metadata", "next">>, "", NoBody)
    ELSE FetchResult(TRUE, <<"updated_metadata", "next">>, "both",
                     [primary |-> primary.body, backup |-> backup.body])

FetchCall(impl, url, tok, primary, backup, resp) ==
    [op |-> "fetchVideoMetadata", impl |-> impl, url |-> url, tok |-> tok,
     primary |-> primary, backup |-> backup, resp |-> resp]

\* one call of fetchVideoMetadata of the module impl
FetchVideoMetadata(impl, url, tok, primary, backup) ==
    /\ last = NoCall
    /\ last' = FetchCall(impl, url, tok, primary, backup,
                         IF impl = "puppeteer"
                         THEN fetchVideoMetadataPup(url, tok, primary, backup)
                         ELSE fetchVideoMetadataDirect(url, tok, primary, backup))
    /\ UNCHANGED <<variant, now, chatVars, metaVars, extractVars>>

PrimaryAnswers ==
    {Answer("fail", NoBody), Answer("ok", NoBody), Answer("ok", Body("empty", NoBody.f))}
    \cup {Answer("ok", Body("actions", p)) : p \in PrimaryFields}

BackupAnswers ==
    {Answer("fail", NoBody)} \cup {Answer("ok", Body("contents", b)) : b \in BackupFields}

NextFetch ==
    \E impl \in {"puppeteer", "direct"}, url \in {UrlA, UrlBad},
       tok \in {Tokens("c0", TRUE, "", 0), Tokens("c0", FALSE, "", 0)},
       primary \in PrimaryAnswers, backup \in BackupAnswers :
        FetchVideoMetadata(impl, url, tok, primary, backup)

SpecFetch == InitChat /\ [][NextFetch]_vars

\* the positions of the call's requests that went to the endpoint
RequestsTo(c, endpoint) ==
    {k \in 1..Len(c.resp.requests) : c.resp.requests[k] = endpoint}

\* C27: fetchVideoMetadata sends a request to the secondary (next) endpoint
\* only when the primary (updated_metadata) call failed or returned an empty
\* or absent action list, and at most once per call.
C27_SecondaryOnlyAsBackup ==
    last.op = "fetchVideoMetadata" =>
        /\ Cardinality(RequestsTo(last, "next")) <= 1
        /\ RequestsTo(last, "next") # {} =>
              /\ RequestsTo(last, "updated_metadata") # {}
              /\ last.primary.kind = "fail" \/ last.primary.body.shape # "actions"

(***************************************************************************)
(* Claims about the refresh age and the expiry of the message cache.       *)
(***************************************************************************)
\* the age of the cache entry of video A when the step's call starts
EntryAge == now - messageCache["A"].lastFetched

\* the call is a getLiveChat of the incremental build for video A alone
IncrementalSingle(c) ==
    variant = "incremental" /\ c.op = "getLiveChat" /\ c.urls = <<UrlA>>

\* the console lines of the call about the URL
LinesOf(c, url) == {k \in 1..Len(c.resp.log) : c.resp.log[k].url = url}

\* no extraction, no poll, and the cached messages returned
ServedFromCache(c) ==
    /\ StagesOf(c, UrlA) = {"cached"}
    /\ c.resp.sent = <<>>
    /\ tokenCache' = tokenCache
    /\ messageCache' = messageCache
    /\ c.resp.errors = <<>>
    /\ c.resp.messages = SortByTs(messageCache["A"].messages)

\* one extraction and, with its tokens, one poll
FetchedOnce(c) ==
    /\ Cardinality(LinesOf(c, UrlA)) = 1
    /\ StagesOf(c, UrlA) \subseteq FailureStages \cup {"ok"}
    /\ Len(c.resp.sent) = IF StagesOf(c, UrlA) = {"extract-failed"} THEN 0 ELSE 1

\* nothing of the old entry is served or kept: the response and the cache
\* hold what the call's own poll brought
OldEntryGone(c) ==
    LET polled == ToMsgs(c.polls[1].items, "A")
    IN /\ "cached" \notin StagesOf(c, UrlA)
       /\ IF "ok" \in StagesOf(c, UrlA)
          THEN /\ messageCache'["A"].messages = polled
               /\ c.resp.messages = SortByTs(polled)
          ELSE /\ "A" \notin DOMAIN messageCache'
               /\ c.resp.messages = <<>>

\* what the call owes to the age of the entry it finds
RefreshStep(c) ==
    /\ EntryAge <= REFRESH_AGE => ServedFromCache(c)
    /\ EntryAge > REFRESH_AGE => FetchedOnce(c)
    /\ EntryAge > CACHE_EXPIRATION => OldEntryGone(c)

\* C28: in the incremental build, a getLiveChat call for a video whose cache
\* entry was fetched at most 10 seconds earlier does no token extraction and
\* no upstream poll and returns the cached messages; with an older entry it
\* does one extraction and one poll; and an entry older than 5 minutes is
\* deleted before it can be served or merged into.
C28_RefreshAgeAndExpiry ==
    [][(CallStep /\ IncrementalSingle(last') /\ "A" \in DOMAIN messageCache)
          => RefreshStep(last')]_vars

\* an entry that held the first message was found older than the refresh age
\* and younger than the expiry: the call polled once, and the third message
\* was merged into the entry
C28_Witness ==
    /\ IncrementalSingle(last)
    /\ StagesOf(last, UrlA) = {"ok"}
    /\ Len(last.resp.sent) = 1
    /\ last.polls[1].items = <<A3>>
    /\ "A" \in DOMAIN messageCache
    /\ messageCache["A"] = Entry(<<Msg(1, 1, "A"), Msg(3, 2, "A")>>, now, "")
    /\ last.resp.messages = <<Msg(1, 1, "A"), Msg(3, 2, "A")>>

(***************************************************************************)
(* SpecClient: a client of the incremental build that pages through the    *)
(* chat of one video.  The first call polls a batch of up to three         *)
(* messages, whose timestamps may be equal; every later call passes the    *)
(* lastTimestamp of the response before it as after, while hasMore is true *)
(* and the entry is young enough to be served from the cache.              *)
(***************************************************************************)
MaxClientBatch == 3     \* the most messages of the polled batch

MaxClientTime == 3      \* the latest timestamp of a message

\* the batches of n messages with ids 1..n, in any order of timestamps
ClientBatches ==
    UNION {{b \in [1..n -> {RawItem("text", i, t) : i \in 1..n, t \in 1..MaxClientTime}] :
               \A i \in 1..n : b[i].id = i} :
           n \in 1..MaxClientBatch}

\* the first request of the client
FirstRequest ==
    /\ last = NoCall
    /\ \E pageSize \in {1, 2}, b \in ClientBatches :
          GetLiveChatTs(<<UrlA>>, pageSize, 0, {}, <<GoodPage>>, <<Poll("ok", b, "c1")>>,
                        <<1>>)

\* the next request of the client: the same request with the cursor moved
NextRequest ==
    /\ last # NoCall
    /\ last.resp.hasMore
    /\ FreshTasks(messageCache, last.urls, now) = {}
    /\ GetLiveChatTs(last.urls, last.pageSize, last.resp.lastTimestamp, {}, last.pages,
                     last.polls, <<>>)

NextClient == FirstRequest \/ NextRequest

SpecClient == InitChat /\ [][NextClient]_vars

\* the cached messages the pages before next have not delivered, in order:
\* those eligible for prev less the page prev returned
Undelivered(prev) ==
    LET all == PageTs(messageCache["A"].messages, NoLimit, prev.after, {}).messages
    IN SubSeq(all, Len(prev.resp.messages) + 1, Len(all))

\* next delivers the page that follows the page of prev
ContinuesFrom(prev, next) ==
    /\ next.resp.messages = SliceFirst(Undelivered(prev), next.pageSize)
    /\ next.resp.hasMore = (Len(Undelivered(prev)) > next.pageSize)

\* C29: in the incremental build, a client that calls getLiveChat again and
\* again with the previous response's lastTimestamp as after, while hasMore
\* is true and the cache content does not change, receives every cached
\* message exactly once, messages with equal timestamps included: each page
\* continues where the page before it stopped.
C29_CursorDeliversEachOnce ==
    [][(/\ CallStep
        /\ variant = "incremental"
        /\ last.op = "getLiveChat" /\ last'.op = "getLiveChat"
        /\ last.resp.hasMore
        /\ last'.after = last.resp.lastTimestamp
        /\ last'.messageIds = {}
        /\ messageCache' = messageCache
        /\ "A" \in DOMAIN messageCache)
          => ContinuesFrom(last, last')]_vars

(***************************************************************************)
(* SpecReset: the browser variant of extractYouTubeTokens beside one call  *)
(* of closeBrowser or of forceResetBrowserState.  Both are async functions *)
(* and run in steps between their awaits, so a creation started by         *)
(* getBrowser goes on while they run.  The variable last holds the         *)
(* position of the shutdown call: its operation, the await it stands at,   *)
(* and the creations that were in flight when it was called.               *)
(***************************************************************************)
MaxResetCalls == 2   \* extractYouTubeTokens calls beside the shutdown call

ShutdownCall(op, pc, creating) == [op |-> op, pc |-> pc, creating |-> creating]

\* browser.close() of browser b: the process ends, its tabs are gone and
\* its 'disconnected' handler runs when it has one
BrowserClose(b) ==
    /\ browsers' = [browsers EXCEPT ![b] = "gone"]
    /\ tabs' = [c \in CallIds |->
                   IF tabs[c].st = "open" /\ tabs[c].browser = b
                   THEN [tabs[c] EXCEPT !.st = "closed"] ELSE tabs[c]]

\* closeBrowser up to the await of logOpenPages
CloseBrowserCall ==
    /\ last = NoCall
    /\ last' = ShutdownCall("closeBrowser", "logOpenPages", CreationsInFlight)
    /\ UNCHANGED <<variant, now, tokenCache, messageCache, metaVars, calls,
                   browserInstance, browserCreationInProgress,
                   browserCreationPromise, activePages, browsers, creations,
                   tabs, lastFetch>>

\* the first if (browserInstance): every page of the browser is closed;
\* without a browser the function goes on to the second test at once
CloseBrowserPages ==
    /\ last.op = "closeBrowser" /\ last.pc = "logOpenPages"
    /\ IF browserInstance # 0
       THEN /\ tabs' = [c \in CallIds |->
                           IF tabs[c].st = "open" /\ tabs[c].browser = browserInstance
                           THEN [tabs[c] EXCEPT !.st = "closed"] ELSE tabs[c]]
            /\ last' = [last EXCEPT !.pc = "pagesClosed"]
            /\ UNCHANGED activePages
       ELSE /\ activePages' = Empty
            /\ last' = [last EXCEPT !.pc = "returned"]
            /\ UNCHANGED tabs
    /\ UNCHANGED <<variant, now, tokenCache, messageCache, metaVars, calls,
                   browserInstance, browserCreationInProgress,
                   browserCreationPromise, browsers, creations, lastFetch>>

\* the second if (browserInstance): browserInstance.close() is awaited
CloseBrowserClose ==
    /\ last.op = "closeBrowser" /\ last.pc = "pagesClosed"
    /\ IF browserInstance # 0
       THEN /\ BrowserClose(browserInstance)
            /\ DisconnectedHandler(browserInstance)
            /\ last' = [last EXCEPT !.pc = "closed"]
       ELSE /\ activePages' = Empty
            /\ last' = [last EXCEPT !.pc = "returned"]
            /\ UNCHANGED <<browsers, tabs, browserInstance>>
    /\ UNCHANGED <<variant, now, tokenCache, messageCache, metaVars, calls,
                   browserCreationInProgress, browserCreationPromise,
                   creations, lastFetch>>

\* after the close: browserInstance = null, activePages.clear(), return true
CloseBrowserReturn ==
    /\ last.op = "closeBrowser" /\ last.pc = "closed"
    /\ browserInstance' = 0
    /\ activePages' = Empty
    /\ last' = [last EXCEPT !.pc = "returned"]
    /\ UNCHANGED <<variant, now, tokenCache, messageCache, metaVars, calls,
                   browserCreationInProgress, browserCreationPromise,
                   browsers, creations, tabs, lastFetch>>

\* the reset of the module state at the end of forceResetBrowserState
ResetState ==
    /\ browserInstance' = 0
    /\ browserCreationInProgress' = FALSE
    /\ browserCreationPromise' = 0
    /\ activePages' = Empty

\* forceResetBrowserState: with a browser its close is awaited first;
\* without one the function runs to its return without an await
ForceResetCall ==
    /\ last = NoCall
    /\ IF browserInstance # 0
       THEN /\ BrowserClose(browserInstance)
            /\ DisconnectedHandler(browserInstance)
            /\ last' = ShutdownCall("forceResetBrowserState", "closed",
                                    CreationsInFlight)
            /\ UNCHANGED <<browserCreationInProgress, browserCreationPromise>>
       ELSE /\ ResetState
            /\ last' = ShutdownCall("forceResetBrowserState", "returned",
                                    CreationsInFlight)
            /\ UNCHANGED <<browsers, tabs>>
    /\ UNCHANGED <<variant, now, tokenCache, messageCache, metaVars, calls,
                   creations, lastFetch>>

ForceResetReturn ==
    /\ last.op = "forceResetBrowserState" /\ last.pc = "closed"
    /\ ResetState
    /\ last' = [last EXCEPT !.pc = "returned"]
    /\ UNCHANGED <<variant, now, tokenCache, messageCache, metaVars, calls,
                   browsers, creations, tabs, lastFetch>>

InitReset == InitExtract /\ variant = "browser"

NextReset ==
    \/ \E c \in 1..MaxResetCalls : Begin(c, UrlA)
    \/ \E c \in CallIds : CreationSettled(c)
    \/ \E c \in CallIds : NewPage(c)
    \/ \E c \in CallIds : Navigate(c, GoodPage)
    \/ \E c \in CallIds : ClosePage(c)
    \/ \E k \in CreationIds, ok \in BOOLEAN : Launch(k, ok)
    \/ \E k \in CreationIds : Install(k)
    \/ CloseBrowserCall
    \/ CloseBrowserPages
    \/ CloseBrowserClose
    \/ CloseBrowserReturn
    \/ ForceResetCall
    \/ ForceResetReturn

SpecReset == InitReset /\ [][NextReset]_vars

\* the shutdown call of the behaviour has been made, has returned
ShutdownCalled == last # NoCall

ShutdownReturned == last # NoCall /\ last.pc = "returned"

\* C30: closeBrowser and forceResetBrowserState leave no browser behind:
\* when either returns browserInstance is null and activePages is empty; a
\* creation that was in flight when it was called installs no browser
\* handle after the return; and once it has been called no second launch
\* runs while an earlier one is still running.
C30_ShutdownLeavesNoBrowser ==
    [][/\ (ShutdownReturned' /\ ~ShutdownReturned) =>
              (browserInstance' = 0 /\ activePages' = Empty)
       /\ (ShutdownReturned /\ browserInstance' # browserInstance) =>
              browserInstance' \notin last.creating
       /\ ShutdownCalled' => Cardinality(CreationsInFlight') <= 1]_vars

====
